---------------------------- MODULE Spec2Model ----------------------------
(***************************************************************************)
(* A model of the DataWorks deployment scripts (scripts/*.py).             *)
(*                                                                         *)
(* The scripts are sequential command-line programs.  Each program is      *)
(* modelled by its own group of variables and its own specification:       *)
(*   SpecDiff    the flatten/diff utility of dataworks_client.py           *)
(*   SpecUpd     update_node of dataworks_client.py                        *)
(*   SpecNid     get_node_id of dataworks_client.py                        *)
(*   SpecCn      create_node of dataworks_client.py                        *)
(*   SpecMerge   the three merge functions of config_merger.py             *)
(*   SpecProc    process_project of process_project.py                     *)
(*   SpecClean   main of clean_mc_tables.py                                *)
(*   SpecPub     main of publish_node.py                                   *)
(*   SpecDs      main of create_mc_ds.py and of create_oss_ds.py           *)
(*   SpecDep     main and deploy_all of deploy.py                          *)
(*   SpecTbl     main of create_table.py                                   *)
(* A specification leaves the variables of the other programs at their     *)
(* idle values.  SpecCalls and SpecEntry run any one of several programs.  *)
(***************************************************************************)
EXTENDS Integers, Sequences, FiniteSets, TLC

VARIABLES
    \* --- the flatten/diff utility, called on two documents ---
    docX, docY,         \* the two JSON documents handed to _print_diff
    diffXY,             \* outcome of _print_diff(docX, docY)
    diffYX,             \* outcome of _print_diff(docY, docX)
    diffPc,             \* "idle" | "start" | "first" | "done"
    \* --- config_merger.py: one call of a merge function on a directory ---
    merge_fn,           \* "node" | "oss" | "mc": the function called
    base_file,          \* the base template file of that function
    global_file,        \* global.json of the directory
    merge_result,       \* what the call returned or raised
    mergePc,            \* "idle" | "start" | "done"
    \* --- clean_mc_tables.py: one run of main ---
    clean_env,          \* os.environ: variable name -> value ("unset" if not set)
    clean_args,         \* [execute, days]: the parsed command line
    tables,             \* what o.list_tables(extended=True) yields
    mc_tables,          \* the names of the tables that exist in the project
    clean_i,            \* position of the `for table in tables` loop
    counts,             \* [deleted, kept, whitelisted]: the three counters
    odps_calls,         \* the calls issued to MaxCompute, in order
    clean_out,          \* the per-table lines printed: <<tag, table name>>
    cleanPc,            \* "idle" | "start" | "list" | "loop" | "exit0" | "exit1" | "crash"
    \* --- dataworks_client.py: one call of update_node ---
    upd_config,         \* the config argument (the merged task configuration)
    get_node,           \* what the GetNode call of this run answers
    upd_local,          \* local_spec: json.loads(build_spec(config))
    upd_remote,         \* remote_spec: what _get_remote_spec returned
    diff_count,         \* what _print_diff returned
    upd_calls,          \* the vendor calls issued, in order
    upd_result,         \* how update_node ended: returned or raised
    updPc,              \* "idle" | "start" | "get" | "diff" | "decide" | "done"
    \* --- process_project.py: one call of process_project ---
    proc_file,          \* config.json of the project directory
    proc_i,             \* i of `for i, table in enumerate(tables)`
    stats,              \* [created, skipped, failed]
    proc_calls,         \* the client calls issued, in order
    task_content,       \* what generate_task_content returned last
    file_id,            \* what create_sync_task returned last
    proc_result,        \* how process_project ended: returned or raised
    procPc,             \* "idle" | "start" | "loop" | the call to issue next | "done"
    \* --- dataworks_client.py: one call of get_node_id ---
    nid_name,           \* the node_name argument
    list_files,         \* what the ListFiles call of this run answers
    nid_files,          \* files: the file list taken from the response
    nid_calls,          \* the vendor calls issued, in order
    nid_result,         \* how get_node_id ended: returned or raised
    nidPc,              \* "idle" | "start" | "look" | "done"
    \* --- publish_node.py: one run of main ---
    pub_env,            \* os.environ: variable name -> value ("unset" if not set)
    pub_file,           \* task-config.json of the project directory
    pub_region,         \* the region the client was built for ("" before)
    pub_calls,          \* the vendor calls issued, in order
    pub_files,          \* what the ListFiles call answered
    pub_file_id,        \* what get_file_id returned (0 before)
    deployment_id,      \* what submit_file returned ("" before)
    pub_status,         \* the status read by the last GetDeployment
    elapsed,            \* elapsed of wait_for_deployment
    pubPc,              \* "idle" | "start" | ... | "exit0" | "exit1" | "crash"
    \* --- create_mc_ds.py / create_oss_ds.py: one run of main ---
    ds_script,          \* "mc" | "oss": the script run
    ds_env,             \* os.environ: variable name -> value ("unset" if not set)
    ds_file,            \* maxcompute-datasource.json / oss-datasource.json
    ds_global,          \* global.json of the project directory
    ds_config,          \* the configuration main loaded
    ds_region,          \* region, as put into connection_properties
    ds_calls,           \* the vendor calls issued, in order
    dsPc,               \* "idle" | "start" | ... | "exit0" | "exit1" | "crash"
    \* --- deploy.py: one run of main without --step ---
    dep_env,            \* os.environ: variable name -> value ("unset" if not set)
    target_projects,    \* --projects, split at the commas (<<>> when not given)
    dep_fs,             \* the projects directory: does it exist, and its entries
    project_dirs,       \* project_dirs of deploy_all
    dep_reports,        \* the process_project calls made and how each ended
    total_failed,       \* total_failed of deploy_all
    total_success,      \* total_success of deploy_all
    depPc,              \* "idle" | "start" | "list" | "loop" | "exit0" | "exit1" | "crash"
    \* --- dataworks_client.py: one call of create_node ---
    cn_config,          \* the config argument
    cn_calls,           \* the vendor calls issued, in order
    cn_result,          \* how create_node ended: returned or raised
    cnPc,               \* "idle" | "start" | "create" | "done"
    \* --- create_table.py: one run of main ---
    tbl_env,            \* os.environ: variable name -> value ("unset" if not set)
    tbl_file,           \* config.json of the project directory
    tbl_calls,          \* the calls issued to MaxCompute, in order
    tblPc               \* "idle" | "start" | "connect" | "ddl" | "execute" | "exit0" | "exit1" | "crash"

diffVars == <<docX, docY, diffXY, diffYX, diffPc>>
mergeVars == <<merge_fn, base_file, global_file, merge_result, mergePc>>
cleanVars == <<clean_env, clean_args, tables, mc_tables, clean_i, counts, odps_calls, clean_out, cleanPc>>

updVars == <<upd_config, get_node, upd_local, upd_remote, diff_count, upd_calls, upd_result, updPc>>

procVars == <<proc_file, proc_i, stats, proc_calls, task_content, file_id, proc_result, procPc>>

nidVars == <<nid_name, list_files, nid_files, nid_calls, nid_result, nidPc>>

pubVars == <<pub_env, pub_file, pub_region, pub_calls, pub_files, pub_file_id, deployment_id, pub_status, elapsed, pubPc>>

dsVars == <<ds_script, ds_env, ds_file, ds_global, ds_config, ds_region, ds_calls, dsPc>>

depVars == <<dep_env, target_projects, dep_fs, project_dirs, dep_reports, total_failed, total_success, depPc>>

cnVars == <<cn_config, cn_calls, cn_result, cnPc>>

tblVars == <<tbl_env, tbl_file, tbl_calls, tblPc>>

vars == <<diffVars, mergeVars, cleanVars, updVars, procVars, nidVars, pubVars, dsVars, depVars, cnVars, tblVars>>

\* what an action of one program leaves alone
notDiff == <<mergeVars, cleanVars, updVars, procVars, nidVars, pubVars, dsVars, depVars, cnVars, tblVars>>
notMerge == <<diffVars, cleanVars, updVars, procVars, nidVars, pubVars, dsVars, depVars, cnVars, tblVars>>
notClean == <<diffVars, mergeVars, updVars, procVars, nidVars, pubVars, dsVars, depVars, cnVars, tblVars>>
notUpd == <<diffVars, mergeVars, cleanVars, procVars, nidVars, pubVars, dsVars, depVars, cnVars, tblVars>>
notProc == <<diffVars, mergeVars, cleanVars, updVars, nidVars, pubVars, dsVars, depVars, cnVars, tblVars>>
notNid == <<diffVars, mergeVars, cleanVars, updVars, procVars, pubVars, dsVars, depVars, cnVars, tblVars>>
notPub == <<diffVars, mergeVars, cleanVars, updVars, procVars, nidVars, dsVars, depVars, cnVars, tblVars>>
notDs == <<diffVars, mergeVars, cleanVars, updVars, procVars, nidVars, pubVars, depVars, cnVars, tblVars>>
notDep == <<diffVars, mergeVars, cleanVars, updVars, procVars, nidVars, pubVars, dsVars, cnVars, tblVars>>
notCn == <<diffVars, mergeVars, cleanVars, updVars, procVars, nidVars, pubVars, dsVars, depVars, tblVars>>
notTbl == <<diffVars, mergeVars, cleanVars, updVars, procVars, nidVars, pubVars, dsVars, depVars, cnVars>>

-----------------------------------------------------------------------------
(***************************************************************************)
(* JSON values as Python holds them after json.load.                       *)
(*   null, booleans, numbers (by their decimal numeral), strings,          *)
(*   objects (a dict: the key/value pairs in insertion order, the keys     *)
(*   distinct) and lists.                                                  *)
(* A key and a flattened path are strings; they are written as sequences   *)
(* of tokens ("a", ".", "content", "[0]", ...), whose concatenation is the *)
(* string, so that f"{prefix}.{k}" and endswith(".content") are computed   *)
(* on the text.  A string value is either a text (txt) or the text of a    *)
(* JSON object/list: the document it encodes (doc) and the way it is       *)
(* laid out (fmt: "py" for json.dumps' layout, "min" for no whitespace,    *)
(* "repr" for Python's str() of a dict or list, which is not JSON).        *)
(***************************************************************************)
JNull == [t |-> "null"]
JBool(b) == [t |-> "bool", b |-> b]
JNum(n) == [t |-> "num", n |-> n]
JStr(s) == [t |-> "str", s |-> [txt |-> s]]
JText(d, f) == [t |-> "str", s |-> [doc |-> d, fmt |-> f]]
JObj(kv) == [t |-> "obj", kv |-> kv]
JList(items) == [t |-> "list", items |-> items]

K(s) == <<s>>

\* Python's bool(v): what `not remote_spec` and `if not task_global` test.
Canon(n) ==
    CASE n = "1.0" -> "1"
      [] n = "0.0" -> "0"
      [] OTHER -> n

Truthy(v) ==
    CASE v.t = "null" -> FALSE
      [] v.t = "bool" -> v.b
      [] v.t = "num" -> Canon(v.n) # "0"
      [] v.t = "str" -> v.s # [txt |-> ""]
      [] v.t = "obj" -> v.kv # <<>>
      [] v.t = "list" -> v.items # <<>>

\* Python's == on two scalars: True == 1 and 1 == 1.0, a string only equals
\* the same string, None only None.
NumKey(v) == IF v.t = "bool" THEN (IF v.b THEN "1" ELSE "0") ELSE Canon(v.n)

PyEq(a, b) ==
    IF a.t \in {"bool", "num"} /\ b.t \in {"bool", "num"}
    THEN NumKey(a) = NumKey(b)
    ELSE a = b

\* json.loads on a string value: the document of a JSON text; a bare text
\* parses only when it is a JSON literal.
JsonLoads(v) ==
    IF "doc" \in DOMAIN v.s
    THEN (IF v.s.fmt \in {"py", "min"} THEN [ok |-> TRUE, v |-> v.s.doc]
          ELSE [ok |-> FALSE])
    ELSE CASE v.s.txt = "null" -> [ok |-> TRUE, v |-> JNull]
           [] v.s.txt = "true" -> [ok |-> TRUE, v |-> JBool(TRUE)]
           [] v.s.txt = "false" -> [ok |-> TRUE, v |-> JBool(FALSE)]
           [] v.s.txt \in {"0", "1", "2", "0.25", "0.5"} ->
                [ok |-> TRUE, v |-> JNum(v.s.txt)]
           [] OTHER -> [ok |-> FALSE]

\* json.dumps(d, ensure_ascii=False) of an object or a list.
JsonDumps(d) == JText(d, "py")

-----------------------------------------------------------------------------
(***************************************************************************)
(* dataworks_client.py: _flatten and _print_diff                           *)
(***************************************************************************)
IdxTok(i) == "[" \o ToString(i) \o "]"

RECURSIVE Flatten(_, _), FlattenDict(_, _, _, _), FlattenList(_, _, _, _)

\* for k, v in d.items(): items.update(_flatten(v, full_key))
FlattenDict(kv, prefix, i, items) ==
    IF i > Len(kv) THEN items
    ELSE LET k == kv[i][1]
             v == kv[i][2]
             full_key == IF prefix # <<>> THEN prefix \o <<".">> \o k ELSE k
         IN FlattenDict(kv, prefix, i + 1, Flatten(v, full_key) @@ items)

\* for i, v in enumerate(d): items.update(_flatten(v, f"{prefix}[{i}]"))
FlattenList(l, prefix, i, items) ==
    IF i > Len(l) THEN items
    ELSE FlattenList(l, prefix, i + 1,
                     Flatten(l[i], prefix \o <<IdxTok(i - 1)>>) @@ items)

Flatten(d, prefix) ==
    IF d.t = "obj" THEN FlattenDict(d.kv, prefix, 1, <<>>)
    ELSE IF d.t = "list" THEN FlattenList(d.items, prefix, 1, <<>>)
    ELSE (prefix :> d)

Missing == JStr("<missing>")

\* flat.get(key, "<missing>")
FlatGet(flat, key) == IF key \in DOMAIN flat THEN flat[key] ELSE Missing

\* key.endswith(".content")
EndsWithContent(key) ==
    /\ Len(key) >= 2
    /\ key[Len(key) - 1] = "."
    /\ key[Len(key)] = "content"

\* The entries one key of all_keys appends to diffs: (field, remote, local).
DiffsOfKeyOuterKey(key, local_flat, remote_flat) ==
    LET local_val == FlatGet(local_flat, key)
        remote_val == FlatGet(remote_flat, key)
        parse == /\ EndsWithContent(key)
                 /\ local_val.t = "str"
                 /\ remote_val.t = "str"
                 /\ JsonLoads(local_val).ok
                 /\ JsonLoads(remote_val).ok
    IN IF parse
       THEN LET inner_diffs == Flatten(JsonLoads(local_val).v, <<>>)
                inner_remote == Flatten(JsonLoads(remote_val).v, <<>>)
            IN { <<key \o <<" -> ">> \o ik,
                   FlatGet(inner_remote, key), FlatGet(inner_diffs, ik)>> :
                   ik \in { x \in DOMAIN inner_diffs \cup DOMAIN inner_remote :
                              ~PyEq(FlatGet(inner_diffs, x),
                                    FlatGet(inner_remote, key)) } }
       ELSE IF ~PyEq(local_val, remote_val)
            THEN {<<key, remote_val, local_val>>}
            ELSE {}

DiffsOfKey(key, local_flat, remote_flat) ==
    LET local_val == FlatGet(local_flat, key)
        remote_val == FlatGet(remote_flat, key)
        parse == /\ EndsWithContent(key)
                 /\ local_val.t = "str"
                 /\ remote_val.t = "str"
                 /\ JsonLoads(local_val).ok
                 /\ JsonLoads(remote_val).ok
    IN IF parse
       THEN LET inner_diffs == Flatten(JsonLoads(local_val).v, <<>>)
                inner_remote == Flatten(JsonLoads(remote_val).v, <<>>)
            IN { <<key \o <<" -> ">> \o ik,
                   FlatGet(inner_remote, ik), FlatGet(inner_diffs, ik)>> :
                   ik \in { x \in DOMAIN inner_diffs \cup DOMAIN inner_remote :
                              ~PyEq(FlatGet(inner_diffs, x),
                                    FlatGet(inner_remote, x)) } }
       ELSE IF ~PyEq(local_val, remote_val)
            THEN {<<key, remote_val, local_val>>}
            ELSE {}

\* The list diffs of _print_diff, as the set of its entries (sorted() only
\* fixes the order in which they are printed).
DiffsLocalKeysOnly(local_spec, remote_spec) ==
    LET local_flat == Flatten(local_spec, <<>>)
        remote_flat == Flatten(remote_spec, <<>>)
    IN UNION { DiffsOfKey(key, local_flat, remote_flat) :
                 key \in DOMAIN local_flat }

Diffs(local_spec, remote_spec) ==
    LET local_flat == Flatten(local_spec, <<>>)
        remote_flat == Flatten(remote_spec, <<>>)
        all_keys == DOMAIN local_flat \cup DOMAIN remote_flat
    IN UNION { DiffsOfKey(key, local_flat, remote_flat) : key \in all_keys }

\* `if not remote_spec: return -1`
RemoteUnavailable(remote_spec) == ~Truthy(remote_spec)

\* _print_diff: the returned count and the entries printed as different.
PrintDiffZeroWhenUnavailable(local_spec, remote_spec) ==
    IF RemoteUnavailable(remote_spec)
    THEN [count |-> 0, diffs |-> {}]
    ELSE LET diffs == Diffs(local_spec, remote_spec)
         IN [count |-> Cardinality(diffs), diffs |-> diffs]

PrintDiff(local_spec, remote_spec) ==
    IF RemoteUnavailable(remote_spec)
    THEN [count |-> -1, diffs |-> {}]
    ELSE LET diffs == Diffs(local_spec, remote_spec)
         IN [count |-> Cardinality(diffs), diffs |-> diffs]

\* the fields (paths) a call printed as different
Fields(out) == { d[1] : d \in out.diffs }

-----------------------------------------------------------------------------
(***************************************************************************)
(* The documents the diff utility is tried on: every JSON value built from *)
(* Scalars and Keys whose node count (a scalar or a container is one node) *)
(* is bounded.                                                             *)
(***************************************************************************)
MaxNodes == 4

DocA == JObj(<< <<K("a"), JNum("1")>> >>)
DocB == JObj(<< <<K("a"), JNum("2")>> >>)

Scalars ==
    { JNull, JBool(TRUE), JNum("1"), JStr("<missing>"),
      JText(DocA, "py"), JText(DocA, "min"), JText(DocB, "py") }

Keys == { K("a"), <<"a", ".", "content">> }

RECURSIVE DocsOfSize(_), ListsOfTotal(_)

\* the sequences of documents whose node counts add up to n
ListsOfTotal(n) ==
    IF n = 0 THEN {<<>>}
    ELSE UNION { { <<d>> \o rest : d \in DocsOfSize(m),
                                   rest \in ListsOfTotal(n - m) } : m \in 1..n }

KeySeqs(len) == { ks \in [1..len -> Keys] :
                    \A i, j \in 1..len : ks[i] = ks[j] => i = j }

DocsOfSize(n) ==
    IF n = 1 THEN Scalars \cup {JObj(<<>>), JList(<<>>)}
    ELSE { JList(l) : l \in ListsOfTotal(n - 1) }
         \cup UNION { { JObj([i \in 1..Len(l) |-> <<ks[i], l[i]>>]) :
                          ks \in KeySeqs(Len(l)) } : l \in ListsOfTotal(n - 1) }

DocsUpTo(n) == UNION { DocsOfSize(m) : m \in 1..n }

-----------------------------------------------------------------------------
(***************************************************************************)
(* SpecDiff: _print_diff is called on (docX, docY) and then on             *)
(* (docY, docX).                                                           *)
(***************************************************************************)
NoDiff == [count |-> -2, diffs |-> {}]

DiffIdle ==
    /\ docX = JNull /\ docY = JNull
    /\ diffXY = NoDiff /\ diffYX = NoDiff
    /\ diffPc = "idle"

DiffStart ==
    /\ \E n \in 1..MaxNodes :
         \E x \in DocsOfSize(n) :
           \E y \in {x} \cup DocsUpTo(MaxNodes - n) :
             docX = x /\ docY = y
    /\ diffXY = NoDiff /\ diffYX = NoDiff
    /\ diffPc = "start"

PrintDiffXY ==
    /\ diffPc = "start"
    /\ diffXY' = PrintDiff(docX, docY)
    /\ diffPc' = "first"
    /\ UNCHANGED <<docX, docY, diffYX, notDiff>>

PrintDiffYX ==
    /\ diffPc = "first"
    /\ diffYX' = PrintDiff(docY, docX)
    /\ diffPc' = "done"
    /\ UNCHANGED <<docX, docY, diffXY, notDiff>>

NextDiff == PrintDiffXY \/ PrintDiffYX

-----------------------------------------------------------------------------
(***************************************************************************)
(* Python dict operations on a JSON object.                                *)
(***************************************************************************)
\* `k in d`
HasKey(d, k) == \E i \in 1..Len(d.kv) : d.kv[i][1] = k

\* d[k]
GetKey(d, k) == d.kv[CHOOSE i \in 1..Len(d.kv) : d.kv[i][1] = k][2]

\* d.get(k, default)
DictGet(d, k, default) == IF HasKey(d, k) THEN GetKey(d, k) ELSE default

\* d[k] = v: the value is replaced in place, a new key goes last
SetKey(d, k, v) ==
    IF HasKey(d, k)
    THEN JObj([i \in 1..Len(d.kv) |->
                 IF d.kv[i][1] = k THEN <<k, v>> ELSE d.kv[i]])
    ELSE JObj(Append(d.kv, <<k, v>>))

\* d[k1][k2] = v
SetKey2(d, k1, k2, v) == SetKey(d, k1, SetKey(GetKey(d, k1), k2, v))

\* d.update(e)
RECURSIVE DictUpdate(_, _, _)
DictUpdate(d, e, i) ==
    IF i > Len(e.kv) THEN d
    ELSE DictUpdate(SetKey(d, e.kv[i][1], e.kv[i][2]), e, i + 1)

EmptyDict == JObj(<<>>)

-----------------------------------------------------------------------------
(***************************************************************************)
(* config_merger.py                                                        *)
(***************************************************************************)
\* A file of the project directory: absent, unreadable as JSON, or a JSON
\* document.
Absent == [exists |-> FALSE]
Garbage == [exists |-> TRUE, parses |-> FALSE]
FileOf(d) == [exists |-> TRUE, parses |-> TRUE, json |-> d]

Returned(v) == [kind |-> "return", value |-> v]
Raised(e) == [kind |-> "raise", exc |-> e]

\* _load_json_silently: {} when the file is absent or fails to load
LoadJsonSilently(file) ==
    IF ~file.exists THEN EmptyDict
    ELSE IF ~file.parses THEN EmptyDict
    ELSE file.json

\* _load_base_config: FileNotFoundError when absent, else json.load(f)
LoadBaseConfigSilently(file) ==
    IF ~file.exists THEN Returned(EmptyDict)
    ELSE IF ~file.parses THEN Raised("JSONDecodeError")
    ELSE Returned(file.json)

LoadBaseConfig(file) ==
    IF ~file.exists THEN Raised("FileNotFoundError")
    ELSE IF ~file.parses THEN Raised("JSONDecodeError")
    ELSE Returned(file.json)

\* the seven `if "<key>" in task_global ...` statements, in order
NodeOverrideUpdateAll(config, task_global) == DictUpdate(config, task_global, 1)

NodeOverrideAlways(config, task_global) ==
    LET c1 == IF HasKey(task_global, K("node_name"))
              THEN SetKey(config, K("node_name"), GetKey(task_global, K("node_name")))
              ELSE config
        c2 == IF HasKey(task_global, K("cron"))
              THEN SetKey(c1, K("cron"), GetKey(task_global, K("cron")))
              ELSE c1
        r0 == IF HasKey(c2, K("reader")) THEN c2 ELSE SetKey(c2, K("reader"), EmptyDict)
        c3 == IF HasKey(task_global, K("reader_datasource"))
              THEN SetKey2(r0, K("reader"), K("datasource"), GetKey(task_global, K("reader_datasource")))
              ELSE c2
        c4 == IF HasKey(task_global, K("reader_path")) /\ HasKey(c3, K("reader"))
              THEN SetKey2(c3, K("reader"), K("path"), GetKey(task_global, K("reader_path")))
              ELSE c3
        c5 == IF HasKey(task_global, K("writer_datasource")) /\ HasKey(c4, K("writer"))
              THEN SetKey2(c4, K("writer"), K("datasource"), GetKey(task_global, K("writer_datasource")))
              ELSE c4
        c6 == IF HasKey(task_global, K("writer_table")) /\ HasKey(c5, K("writer"))
              THEN SetKey2(c5, K("writer"), K("table"), GetKey(task_global, K("writer_table")))
              ELSE c5
        c7 == IF HasKey(task_global, K("writer_partition")) /\ HasKey(c6, K("writer"))
              THEN SetKey2(c6, K("writer"), K("partition"), GetKey(task_global, K("writer_partition")))
              ELSE c6
    IN c7

NodeOverride(config, task_global) ==
    LET c1 == IF HasKey(task_global, K("node_name"))
              THEN SetKey(config, K("node_name"), GetKey(task_global, K("node_name")))
              ELSE config
        c2 == IF HasKey(task_global, K("cron"))
              THEN SetKey(c1, K("cron"), GetKey(task_global, K("cron")))
              ELSE c1
        c3 == IF HasKey(task_global, K("reader_datasource")) /\ HasKey(c2, K("reader"))
              THEN SetKey2(c2, K("reader"), K("datasource"), GetKey(task_global, K("reader_datasource")))
              ELSE c2
        c4 == IF HasKey(task_global, K("reader_path")) /\ HasKey(c3, K("reader"))
              THEN SetKey2(c3, K("reader"), K("path"), GetKey(task_global, K("reader_path")))
              ELSE c3
        c5 == IF HasKey(task_global, K("writer_datasource")) /\ HasKey(c4, K("writer"))
              THEN SetKey2(c4, K("writer"), K("datasource"), GetKey(task_global, K("writer_datasource")))
              ELSE c4
        c6 == IF HasKey(task_global, K("writer_table")) /\ HasKey(c5, K("writer"))
              THEN SetKey2(c5, K("writer"), K("table"), GetKey(task_global, K("writer_table")))
              ELSE c5
        c7 == IF HasKey(task_global, K("writer_partition")) /\ HasKey(c6, K("writer"))
              THEN SetKey2(c6, K("writer"), K("partition"), GetKey(task_global, K("writer_partition")))
              ELSE c6
    IN c7

\* load_merged_node_config(project_dir)
LoadMergedNodeConfig(base, glob) ==
    LET loaded == LoadBaseConfig(base)
        global_cfg == LoadJsonSilently(glob)
        task_global == DictGet(global_cfg, K("task"), EmptyDict)
    IN IF loaded.kind = "raise" THEN loaded
       ELSE IF ~Truthy(task_global) THEN Returned(loaded.value)
       ELSE Returned(NodeOverride(loaded.value, task_global))

\* the three `if "<key>" in oss_global` statements
OssOverride(config, oss_global) ==
    LET c1 == IF HasKey(oss_global, K("name"))
              THEN SetKey(config, K("name"), GetKey(oss_global, K("name")))
              ELSE config
        c2 == IF HasKey(oss_global, K("bucket"))
              THEN SetKey(c1, K("bucket"), GetKey(oss_global, K("bucket")))
              ELSE c1
        c3 == IF HasKey(oss_global, K("endpoint"))
              THEN SetKey(c2, K("endpoint"), GetKey(oss_global, K("endpoint")))
              ELSE c2
    IN c3

\* load_merged_oss_ds_config(project_dir)
LoadMergedOssDsConfig(base, glob) ==
    LET loaded == LoadBaseConfig(base)
        global_cfg == LoadJsonSilently(glob)
        oss_global == DictGet(DictGet(global_cfg, K("datasource"), EmptyDict), K("oss"), EmptyDict)
    IN IF loaded.kind = "raise" THEN loaded
       ELSE IF ~Truthy(oss_global) THEN Returned(loaded.value)
       ELSE Returned(OssOverride(loaded.value, oss_global))

\* the three `if "<key>" in mc_global` statements
McOverride(config, mc_global) ==
    LET c1 == IF HasKey(mc_global, K("name"))
              THEN SetKey(config, K("name"), GetKey(mc_global, K("name")))
              ELSE config
        c2 == IF HasKey(mc_global, K("project"))
              THEN SetKey(c1, K("project"), GetKey(mc_global, K("project")))
              ELSE c1
        c3 == IF HasKey(mc_global, K("endpoint"))
              THEN SetKey(c2, K("endpoint"), GetKey(mc_global, K("endpoint")))
              ELSE c2
    IN c3

\* load_merged_mc_ds_config(project_dir)
LoadMergedMcDsConfig(base, glob) ==
    LET loaded == LoadBaseConfig(base)
        global_cfg == LoadJsonSilently(glob)
        mc_global == DictGet(DictGet(global_cfg, K("datasource"), EmptyDict), K("mc"), EmptyDict)
    IN IF loaded.kind = "raise" THEN loaded
       ELSE IF ~Truthy(mc_global) THEN Returned(loaded.value)
       ELSE Returned(McOverride(loaded.value, mc_global))

-----------------------------------------------------------------------------
(***************************************************************************)
(* The directories the merge functions are tried on.  A base template is   *)
(* the full template restricted to any set of its top-level keys; a        *)
(* section of global.json holds at most MaxOverrides of the keys a section *)
(* may hold (the recognized ones and two the code does not read).          *)
(***************************************************************************)
MaxOverrides == 2

RECURSIVE Pick(_, _, _)
\* the pairs of kv whose index is in S, in order
Pick(kv, S, i) ==
    IF i > Len(kv) THEN <<>>
    ELSE (IF i \in S THEN <<kv[i]>> ELSE <<>>) \o Pick(kv, S, i + 1)

SubDicts(d, max) ==
    { JObj(Pick(d.kv, S, 1)) :
        S \in { T \in SUBSET (1..Len(d.kv)) : Cardinality(T) <= max } }

FullTaskConfig ==
    JObj(<< <<K("node_name"), JStr("n0")>>,
            <<K("cron"), JStr("c0")>>,
            <<K("reader"), JObj(<< <<K("path"), JStr("p0")>>,
                                   <<K("datasource"), JStr("rd0")>>,
                                   <<K("fileFormat"), JStr("parquet")>> >>)>>,
            <<K("writer"), JObj(<< <<K("datasource"), JStr("wd0")>>,
                                   <<K("table"), JStr("t0")>>,
                                   <<K("partition"), JStr("pt0")>>,
                                   <<K("truncate"), JBool(FALSE)>> >>)>>,
            <<K("owner"), JStr("o0")>> >>)

FullTaskGlobal ==
    JObj(<< <<K("node_name"), JStr("n1")>>,
            <<K("cron"), JStr("c1")>>,
            <<K("reader_datasource"), JStr("rd1")>>,
            <<K("reader_path"), JStr("p1")>>,
            <<K("writer_datasource"), JStr("wd1")>>,
            <<K("writer_table"), JStr("t1")>>,
            <<K("writer_partition"), JStr("pt1")>>,
            <<K("owner"), JStr("o1")>>,
            <<K("reader"), JObj(<< <<K("path"), JStr("p2")>> >>)>> >>)

FullOssConfig ==
    JObj(<< <<K("name"), JStr("oss0")>>,
            <<K("type"), JStr("oss")>>,
            <<K("bucket"), JStr("b0")>>,
            <<K("endpoint"), JStr("e0")>>,
            <<K("description"), JStr("d0")>> >>)

FullMcConfig ==
    JObj(<< <<K("name"), JStr("mc0")>>,
            <<K("type"), JStr("odps")>>,
            <<K("project"), JStr("pr0")>>,
            <<K("endpoint"), JStr("e0")>>,
            <<K("description"), JStr("d0")>> >>)

FullDsGlobal ==
    JObj(<< <<K("name"), JStr("ds1")>>,
            <<K("bucket"), JStr("b1")>>,
            <<K("project"), JStr("pr1")>>,
            <<K("endpoint"), JStr("e1")>>,
            <<K("description"), JStr("d1")>> >>)

BaseOf(fn) ==
    CASE fn = "node" -> FullTaskConfig
      [] fn = "oss" -> FullOssConfig
      [] fn = "mc" -> FullMcConfig

BaseFiles(fn) ==
    {Absent, Garbage} \cup { FileOf(b) : b \in SubDicts(BaseOf(fn), Len(BaseOf(fn).kv)) }

\* global.json holding section sec for function fn, beside another section
GlobalWith(fn, sec) ==
    CASE fn = "node" ->
           JObj(<< <<K("datasource"), JObj(<< <<K("oss"), FullDsGlobal>> >>)>>,
                   <<K("task"), sec>> >>)
      [] fn = "oss" ->
           JObj(<< <<K("task"), FullTaskGlobal>>,
                   <<K("datasource"), JObj(<< <<K("mc"), FullDsGlobal>>,
                                              <<K("oss"), sec>> >>)>> >>)
      [] fn = "mc" ->
           JObj(<< <<K("datasource"), JObj(<< <<K("oss"), FullDsGlobal>>,
                                              <<K("mc"), sec>> >>)>> >>)

\* global.json without the section of fn
GlobalsWithout(fn) ==
    CASE fn = "node" ->
           { EmptyDict, JObj(<< <<K("datasource"), JObj(<< <<K("oss"), FullDsGlobal>> >>)>> >>) }
      [] fn = "oss" ->
           { EmptyDict, JObj(<< <<K("task"), FullTaskGlobal>> >>),
             JObj(<< <<K("datasource"), JObj(<< <<K("mc"), FullDsGlobal>> >>)>> >>) }
      [] fn = "mc" ->
           { EmptyDict, JObj(<< <<K("task"), FullTaskGlobal>> >>),
             JObj(<< <<K("datasource"), JObj(<< <<K("oss"), FullDsGlobal>> >>)>> >>) }

SectionsOf(fn) ==
    SubDicts(IF fn = "node" THEN FullTaskGlobal ELSE FullDsGlobal, MaxOverrides)

GlobalFiles(fn) ==
    {Absent, Garbage}
        \cup { FileOf(g) : g \in GlobalsWithout(fn) }
        \cup { FileOf(GlobalWith(fn, sec)) : sec \in SectionsOf(fn) }

NoResult == [kind |-> "none"]

MergeIdle ==
    /\ merge_fn = "none"
    /\ base_file = Absent /\ global_file = Absent
    /\ merge_result = NoResult
    /\ mergePc = "idle"

MergeStart ==
    /\ merge_fn \in {"node", "oss", "mc"}
    /\ base_file \in BaseFiles(merge_fn)
    /\ global_file \in GlobalFiles(merge_fn)
    /\ merge_result = NoResult
    /\ mergePc = "start"

CallLoadMergedNodeConfig ==
    /\ mergePc = "start" /\ merge_fn = "node"
    /\ merge_result' = LoadMergedNodeConfig(base_file, global_file)
    /\ mergePc' = "done"
    /\ UNCHANGED <<merge_fn, base_file, global_file, notMerge>>

CallLoadMergedOssDsConfig ==
    /\ mergePc = "start" /\ merge_fn = "oss"
    /\ merge_result' = LoadMergedOssDsConfig(base_file, global_file)
    /\ mergePc' = "done"
    /\ UNCHANGED <<merge_fn, base_file, global_file, notMerge>>

CallLoadMergedMcDsConfig ==
    /\ mergePc = "start" /\ merge_fn = "mc"
    /\ merge_result' = LoadMergedMcDsConfig(base_file, global_file)
    /\ mergePc' = "done"
    /\ UNCHANGED <<merge_fn, base_file, global_file, notMerge>>

NextMerge ==
    \/ CallLoadMergedNodeConfig
    \/ CallLoadMergedOssDsConfig
    \/ CallLoadMergedMcDsConfig

-----------------------------------------------------------------------------
(***************************************************************************)
(* Environment variables.  os.environ maps a name to its value; "unset"    *)
(* stands for a name that is not in the environment.                       *)
(***************************************************************************)
\* os.environ.get(name, default)
EnvGet(env, name, default) ==
    IF env[name] = "unset" THEN default ELSE env[name]

\* str.strip()
Strip(v) == IF v = " " THEN "" ELSE v

\* get_env_or_fail(name) exits the process when this holds
EnvFails(env, name) == Strip(EnvGet(env, name, "")) = ""

\* the environments tried: every variable set, or one of them unset, empty
\* or blank
Environments(names) ==
    { [n \in names |-> "v"] }
        \cup { [n \in names |-> IF n = bad THEN val ELSE "v"] :
                 bad \in names, val \in {"unset", "", " "} }

-----------------------------------------------------------------------------
(***************************************************************************)
(* clean_mc_tables.py                                                      *)
(***************************************************************************)
WhitelistMissingComma == <<"product_dim", "user_dimcore_metrics">>

WHITELIST_TABLES == <<"product_dim", "user_dim", "core_metrics">>

\* `table_name in WHITELIST_TABLES`
InWhitelist(table_name) ==
    \E i \in 1..Len(WHITELIST_TABLES) : WHITELIST_TABLES[i] = table_name

\* the variables main reads with get_env_or_fail, in the order it reads them
CleanEnvNames ==
    << "ALIBABA_CLOUD_ACCESS_KEY_ID", "ALIBABA_CLOUD_ACCESS_KEY_SECRET",
       "MAXCOMPUTE_PROJECT", "MAXCOMPUTE_ENDPOINT" >>

\* Time is counted in days.  Now is datetime.now(); NoTime stands for a
\* table without creation_time (None).
Now == 100
NoTime == -1

\* threshold_date = datetime.now() - timedelta(days=args.days)
ThresholdDate(args) == Now - args.days

\* `if not creation_time`
HasNoCreationTime(creation_time) == creation_time = NoTime

\* `if creation_time < threshold_date`
IsOldOrEqual(creation_time, threshold_date) == creation_time <= threshold_date

IsOld(creation_time, threshold_date) == creation_time < threshold_date

\* `if args.execute`
DropAlways(args) == TRUE

DropForReal(args) == args.execute

\* main, up to the construction of the ODPS object: the four
\* get_env_or_fail calls
CleanConnect ==
    /\ cleanPc = "start"
    /\ cleanPc' = IF \E i \in 1..Len(CleanEnvNames) : EnvFails(clean_env, CleanEnvNames[i])
                  THEN "exit1" ELSE "list"
    /\ UNCHANGED <<clean_env, clean_args, tables, mc_tables, clean_i, counts, odps_calls, clean_out, notClean>>

\* tables = o.list_tables(extended=True): returns, or raises
CleanListTables ==
    /\ cleanPc = "list"
    /\ odps_calls' = Append(odps_calls, [op |-> "list_tables", table |-> ""])
    /\ \E ok \in BOOLEAN : cleanPc' = IF ok THEN "loop" ELSE "crash"
    /\ UNCHANGED <<clean_env, clean_args, tables, mc_tables, clean_i, counts, clean_out, notClean>>

\* one pass of the loop body on a whitelisted table
CleanSkipWhitelisted ==
    /\ cleanPc = "loop" /\ clean_i <= Len(tables)
    /\ InWhitelist(tables[clean_i].name)
    /\ clean_out' = clean_out \cup {<<"SKIP", tables[clean_i].name>>}
    /\ counts' = [counts EXCEPT !.whitelisted = @ + 1]
    /\ clean_i' = clean_i + 1
    /\ UNCHANGED <<clean_env, clean_args, tables, mc_tables, odps_calls, cleanPc, notClean>>

\* ... on a table without creation_time
CleanSkipNoTime ==
    /\ cleanPc = "loop" /\ clean_i <= Len(tables)
    /\ ~InWhitelist(tables[clean_i].name)
    /\ HasNoCreationTime(tables[clean_i].creation_time)
    /\ clean_out' = clean_out \cup {<<"SKIP", tables[clean_i].name>>}
    /\ counts' = [counts EXCEPT !.kept = @ + 1]
    /\ clean_i' = clean_i + 1
    /\ UNCHANGED <<clean_env, clean_args, tables, mc_tables, odps_calls, cleanPc, notClean>>

\* ... on an old table with --execute: table.drop(async_=False) returns,
\* or raises and ends the run
CleanDrop ==
    /\ cleanPc = "loop" /\ clean_i <= Len(tables)
    /\ ~InWhitelist(tables[clean_i].name)
    /\ ~HasNoCreationTime(tables[clean_i].creation_time)
    /\ IsOld(tables[clean_i].creation_time, ThresholdDate(clean_args))
    /\ DropForReal(clean_args)
    /\ clean_out' = clean_out \cup {<<"DELETE", tables[clean_i].name>>}
    /\ odps_calls' = Append(odps_calls, [op |-> "drop", table |-> tables[clean_i].name])
    /\ \E ok \in BOOLEAN :
         IF ok
         THEN /\ mc_tables' = mc_tables \ {tables[clean_i].name}
              /\ counts' = [counts EXCEPT !.deleted = @ + 1]
              /\ clean_i' = clean_i + 1
              /\ UNCHANGED cleanPc
         ELSE /\ cleanPc' = "crash"
              /\ UNCHANGED <<mc_tables, counts, clean_i>>
    /\ UNCHANGED <<clean_env, clean_args, tables, notClean>>

\* ... on an old table without --execute
CleanDryRun ==
    /\ cleanPc = "loop" /\ clean_i <= Len(tables)
    /\ ~InWhitelist(tables[clean_i].name)
    /\ ~HasNoCreationTime(tables[clean_i].creation_time)
    /\ IsOld(tables[clean_i].creation_time, ThresholdDate(clean_args))
    /\ ~DropForReal(clean_args)
    /\ clean_out' = clean_out \cup {<<"DRY-RUN", tables[clean_i].name>>}
    /\ counts' = [counts EXCEPT !.deleted = @ + 1]
    /\ clean_i' = clean_i + 1
    /\ UNCHANGED <<clean_env, clean_args, tables, mc_tables, odps_calls, cleanPc, notClean>>

\* ... on a table that is not older than the threshold
CleanKeep ==
    /\ cleanPc = "loop" /\ clean_i <= Len(tables)
    /\ ~InWhitelist(tables[clean_i].name)
    /\ ~HasNoCreationTime(tables[clean_i].creation_time)
    /\ ~IsOld(tables[clean_i].creation_time, ThresholdDate(clean_args))
    /\ counts' = [counts EXCEPT !.kept = @ + 1]
    /\ clean_i' = clean_i + 1
    /\ UNCHANGED <<clean_env, clean_args, tables, mc_tables, odps_calls, clean_out, cleanPc, notClean>>

\* the loop is over: the summary is printed and main returns
CleanSummary ==
    /\ cleanPc = "loop" /\ clean_i > Len(tables)
    /\ cleanPc' = "exit0"
    /\ UNCHANGED <<clean_env, clean_args, tables, mc_tables, clean_i, counts, odps_calls, clean_out, notClean>>

NextClean ==
    \/ CleanConnect
    \/ CleanListTables
    \/ CleanSkipWhitelisted
    \/ CleanSkipNoTime
    \/ CleanDrop
    \/ CleanDryRun
    \/ CleanKeep
    \/ CleanSummary

(***************************************************************************)
(* The runs tried: up to MaxTables tables with distinct names, created 60, *)
(* 31 or 30 days ago or without creation_time; --days 30 or 0.             *)
(***************************************************************************)
MaxTables == 2

TableNames == {"core_metrics", "product_dim", "tmp_x", "tmp_y"}
CreationTimes == {NoTime, Now - 60, Now - 31, Now - 30}
DaysArgs == {30, 0}

TableLists ==
    UNION { { l \in [1..n -> [name : TableNames, creation_time : CreationTimes]] :
                \A i, j \in 1..n : l[i].name = l[j].name => i = j } :
              n \in 0..MaxTables }

CleanIdle ==
    /\ clean_env = <<>> /\ clean_args = <<>> /\ tables = <<>> /\ mc_tables = {}
    /\ clean_i = 0 /\ counts = <<>> /\ odps_calls = <<>> /\ clean_out = {}
    /\ cleanPc = "idle"

CleanStart ==
    /\ clean_env \in Environments({ CleanEnvNames[i] : i \in 1..Len(CleanEnvNames) })
    /\ clean_args \in [execute : BOOLEAN, days : DaysArgs]
    /\ tables \in TableLists
    /\ mc_tables = { tables[i].name : i \in 1..Len(tables) }
    /\ clean_i = 1
    /\ counts = [deleted |-> 0, kept |-> 0, whitelisted |-> 0]
    /\ odps_calls = <<>>
    /\ clean_out = {}
    /\ cleanPc = "start"

-----------------------------------------------------------------------------
(***************************************************************************)
(* dataworks_client.py: build_spec                                         *)
(***************************************************************************)
Item(k, v) == <<K(k), v>>

\* str(v)
PyStr(v) ==
    CASE v.t = "null" -> JStr("None")
      [] v.t = "bool" -> JStr(IF v.b THEN "True" ELSE "False")
      [] v.t = "num" -> JStr(v.n)
      [] v.t = "str" -> v
      [] OTHER -> JText(v, "repr")

\* config.get("reader", {}).get(...) raises AttributeError when the value
\* under "reader" or "writer" is not a dict
BuildSpecRaises(config) ==
    \E k \in {K("reader"), K("writer")} :
        HasKey(config, k) /\ GetKey(config, k).t # "obj"

\* config.get(section, {}).get(k, default)
SectionGet(config, section, k, default) ==
    DictGet(DictGet(config, K(section), EmptyDict), K(k), default)

\* "cu": str(config.get("script_cu", "0.25"))
ScriptCu(config) == PyStr(DictGet(config, K("script_cu"), JStr("0.25")))

\* the inner data-integration job description
DiJobContent(config) ==
    LET resource_group == DictGet(config, K("resource_group"), JStr(""))
    IN JObj(<<
        Item("extend", JObj(<<
            Item("mode", JStr("wizard")),
            Item("resourceGroup", resource_group),
            Item("oneStopPageNum", DictGet(config, K("oneStopPageNum"), JNum("2"))),
            Item("cu", DictGet(config, K("cu"), JNum("0.5"))) >>)),
        Item("transform", DictGet(config, K("transform"), JBool(FALSE))),
        Item("type", JStr("job")),
        Item("version", JStr("2.0")),
        Item("steps", JList(<<
            JObj(<<
                Item("stepType", JStr("oss")),
                Item("copies", JNum("1")),
                Item("parameter", JObj(<<
                    Item("path", SectionGet(config, "reader", "path", JStr(""))),
                    Item("envType", SectionGet(config, "reader", "envType", JNum("1"))),
                    Item("datasource", SectionGet(config, "reader", "datasource", JStr(""))),
                    Item("column", SectionGet(config, "reader", "column", JList(<<>>))),
                    Item("fileFormat", SectionGet(config, "reader", "fileFormat", JStr("parquet"))) >>)),
                Item("name", JStr("Reader")),
                Item("category", JStr("reader")) >>),
            JObj(<<
                Item("stepType", JStr("odps")),
                Item("copies", JNum("1")),
                Item("parameter", JObj(<<
                    Item("partition", SectionGet(config, "writer", "partition", JStr(""))),
                    Item("truncate", SectionGet(config, "writer", "truncate", JBool(FALSE))),
                    Item("envType", SectionGet(config, "writer", "envType", JNum("1"))),
                    Item("datasource", SectionGet(config, "writer", "datasource", JStr(""))),
                    Item("isSupportThreeModel", SectionGet(config, "writer", "isSupportThreeModel", JBool(FALSE))),
                    Item("tunnelQuota", SectionGet(config, "writer", "tunnelQuota", JStr("default"))),
                    Item("column", SectionGet(config, "writer", "column", JList(<<>>))),
                    Item("emptyAsNull", SectionGet(config, "writer", "emptyAsNull", JBool(FALSE))),
                    Item("tableComment", SectionGet(config, "writer", "tableComment", JStr("null"))),
                    Item("consistencyCommit", SectionGet(config, "writer", "consistencyCommit", JBool(TRUE))),
                    Item("table", SectionGet(config, "writer", "table", JStr(""))) >>)),
                Item("name", JStr("Writer")),
                Item("category", JStr("writer")) >>) >>)),
        Item("order", JObj(<< Item("hops", DictGet(config, K("hops"), JList(<<>>))) >>)),
        Item("setting", JObj(<<
            Item("errorLimit", JObj(<< Item("record", JStr("0")) >>)),
            Item("locale", JStr("zh_CN")),
            Item("speed", JObj(<< Item("throttle", JBool(FALSE)),
                                  Item("concurrent", JNum("1")) >>)) >>)) >>)

\* `if k in config: d[k] = config[k]`
CopyIfPresent(d, config, k) ==
    IF HasKey(config, K(k)) THEN SetKey(d, K(k), GetKey(config, K(k))) ELSE d

ScriptContent(config) ==
    CopyIfPresent(
        JObj(<<
            Item("path", DictGet(config, K("node_name"), JStr(""))),
            Item("language", JStr("json")),
            Item("runtime", JObj(<<
                Item("command", JStr("DI")),
                Item("commandTypeId", DictGet(config, K("script_commandTypeId"), JNum("23"))),
                Item("cu", ScriptCu(config)) >>)),
            Item("content", JsonDumps(DiJobContent(config))) >>),
        config, "parameters")

TriggerConfig(config) ==
    CopyIfPresent(
        JObj(<<
            Item("type", JStr("Scheduler")),
            Item("cron", DictGet(config, K("cron"), JStr("00 00 00-23/1 * * ?"))),
            Item("startTime", DictGet(config, K("startTime"), JStr("1970-01-01 00:00:00"))),
            Item("endTime", DictGet(config, K("endTime"), JStr("9999-01-01 00:00:00"))),
            Item("timezone", DictGet(config, K("timezone"), JStr("Asia/Shanghai"))),
            Item("delaySeconds", DictGet(config, K("delaySeconds"), JNum("0"))) >>),
        config, "cycleType")

RuntimeResource(config) ==
    CopyIfPresent(
        CopyIfPresent(
            JObj(<< Item("resourceGroup", DictGet(config, K("resource_group"), JStr(""))) >>),
            config, "resourceGroupId"),
        config, "resourceGroupName")

NodeDef(config) ==
    CopyIfPresent(
        JObj(<<
            Item("recurrence", JStr("Normal")),
            Item("maxInternalConcurrency", DictGet(config, K("maxInternalConcurrency"), JNum("0"))),
            Item("timeout", DictGet(config, K("timeout"), JNum("0"))),
            Item("timeoutUnit", DictGet(config, K("timeoutUnit"), JStr("HOURS"))),
            Item("instanceMode", DictGet(config, K("instanceMode"), JStr("Immediately"))),
            Item("rerunMode", DictGet(config, K("rerunMode"), JStr("Allowed"))),
            Item("rerunTimes", DictGet(config, K("rerunTimes"), JNum("0"))),
            Item("rerunInterval", DictGet(config, K("rerunInterval"), JNum("180000"))),
            Item("autoParse", DictGet(config, K("autoParse"), JBool(FALSE))),
            Item("script", ScriptContent(config)),
            Item("trigger", TriggerConfig(config)),
            Item("runtimeResource", RuntimeResource(config)),
            Item("name", DictGet(config, K("node_name"), JStr(""))),
            Item("owner", DictGet(config, K("owner"), JStr(""))) >>),
        config, "metadata")

\* "flow": [{"depends": ...}] if config.get("depends") else []
Flow(config) ==
    IF Truthy(DictGet(config, K("depends"), JNull))
    THEN JList(<< JObj(<< Item("depends", DictGet(config, K("depends"), JList(<<>>))) >>) >>)
    ELSE JList(<<>>)

SpecDict(config) ==
    JObj(<<
        Item("version", JStr("1.1.0")),
        Item("kind", JStr("CycleWorkflow")),
        Item("spec", JObj(<<
            Item("nodes", JList(<< NodeDef(config) >>)),
            Item("flow", Flow(config)) >>)) >>)

\* build_spec(config), for a config it does not raise on
BuildSpec(config) == JsonDumps(SpecDict(config))

-----------------------------------------------------------------------------
(***************************************************************************)
(* dataworks_client.py: _get_remote_spec and update_node                   *)
(***************************************************************************)
\* What GetNode answers: it raises, or the response has no node, or a node
\* whose spec is None, or a node with a spec string.
GetNodeRaises == [kind |-> "raise"]
NoNode == [kind |-> "ok", node |-> FALSE]
NodeWithoutSpec == [kind |-> "ok", node |-> TRUE, has_spec |-> FALSE]
NodeWith(spec) == [kind |-> "ok", node |-> TRUE, has_spec |-> TRUE, spec |-> spec]

\* _get_remote_spec: json.loads(node.spec) `if node and node.spec`; {} when
\* not, and when the call or json.loads raises
GetRemoteSpec(resp) ==
    IF /\ resp.kind = "ok" /\ resp.node /\ resp.has_spec
       /\ Truthy(resp.spec) /\ JsonLoads(resp.spec).ok
    THEN JsonLoads(resp.spec).v
    ELSE EmptyDict

\* `if diff_count == 0`
NothingChangedNegative(count) == count < 0

NothingChanged(count) == count = 0

NoCount == -2

\* local_spec = json.loads(build_spec(config))
UpdBuildSpec ==
    /\ updPc = "start"
    /\ IF BuildSpecRaises(upd_config)
       THEN /\ upd_result' = Raised("AttributeError")
            /\ updPc' = "done"
            /\ UNCHANGED upd_local
       ELSE /\ upd_local' = JsonLoads(BuildSpec(upd_config)).v
            /\ updPc' = "get"
            /\ UNCHANGED upd_result
    /\ UNCHANGED <<upd_config, get_node, upd_remote, diff_count, upd_calls, notUpd>>

\* remote_spec = _get_remote_spec(client, project_id, node_id)
UpdGetRemoteSpec ==
    /\ updPc = "get"
    /\ upd_calls' = Append(upd_calls, [op |-> "GetNode"])
    /\ upd_remote' = GetRemoteSpec(get_node)
    /\ updPc' = "diff"
    /\ UNCHANGED <<upd_config, get_node, upd_local, diff_count, upd_result, notUpd>>

\* diff_count = _print_diff(local_spec, remote_spec)
UpdPrintDiff ==
    /\ updPc = "diff"
    /\ diff_count' = PrintDiff(upd_local, upd_remote).count
    /\ updPc' = "decide"
    /\ UNCHANGED <<upd_config, get_node, upd_local, upd_remote, upd_calls, upd_result, notUpd>>

\* "Skipping update - nothing changed."
UpdSkip ==
    /\ updPc = "decide"
    /\ NothingChanged(diff_count)
    /\ upd_result' = Returned(JNull)
    /\ updPc' = "done"
    /\ UNCHANGED <<upd_config, get_node, upd_local, upd_remote, diff_count, upd_calls, notUpd>>

\* client.update_node_with_options(...): success, success=False (a
\* RuntimeError is raised), or the call raises; both errors are re-raised
UpdCallUpdateNode ==
    /\ updPc = "decide"
    /\ ~NothingChanged(diff_count)
    /\ upd_calls' = Append(upd_calls, [op |-> "UpdateNode", spec |-> JsonDumps(upd_local)])
    /\ \E answer \in {"success", "not_success", "raise"} :
         upd_result' = CASE answer = "success" -> Returned(JNull)
                         [] answer = "not_success" -> Raised("RuntimeError")
                         [] OTHER -> Raised("TeaException")
    /\ updPc' = "done"
    /\ UNCHANGED <<upd_config, get_node, upd_local, upd_remote, diff_count, notUpd>>

NextUpd ==
    \/ UpdBuildSpec
    \/ UpdGetRemoteSpec
    \/ UpdPrintDiff
    \/ UpdSkip
    \/ UpdCallUpdateNode

(***************************************************************************)
(* The calls tried.  config: the keys of a full task configuration         *)
(* restricted to at most MaxConfigKeys of them, or with a reader that is   *)
(* not an object.  The remote copy: the local spec itself, the local spec  *)
(* as a server may hand it back (embedded JSON texts laid out anew,        *)
(* booleans as 0/1, an extra field), the spec of another configuration,    *)
(* an empty document, a text that is not JSON.                             *)
(***************************************************************************)
MaxConfigKeys == 2

FullNodeConfig ==
    JObj(<< Item("node_name", JStr("n0")),
            Item("resource_group", JStr("rg0")),
            Item("reader", JObj(<< Item("path", JStr("p0")),
                                   Item("fileFormat", JStr("csv")) >>)),
            Item("writer", JObj(<< Item("table", JStr("t1")),
                                   Item("partition", JStr("pt")),
                                   Item("truncate", JBool(TRUE)) >>)),
            Item("script_cu", JNum("0.5")),
            Item("parameters", JList(<< JObj(<< Item("name", JStr("bizdate")) >>) >>)),
            Item("cycleType", JStr("Daily")),
            Item("resourceGroupId", JStr("id0")),
            Item("metadata", JObj(<< Item("owner", JStr("u0")) >>)),
            Item("depends", JList(<< JObj(<< Item("output", JStr("root")) >>) >>)) >>)

NodeConfigs ==
    SubDicts(FullNodeConfig, MaxConfigKeys)
        \cup { JObj(<< Item("reader", JNull) >>),
               JObj(<< Item("writer", JStr("t1")) >>) }

RECURSIVE Relaid(_), Numbered(_)

\* a document with every embedded JSON text laid out without whitespace
Relaid(d) ==
    CASE d.t = "obj" -> JObj([i \in 1..Len(d.kv) |-> <<d.kv[i][1], Relaid(d.kv[i][2])>>])
      [] d.t = "list" -> JList([i \in 1..Len(d.items) |-> Relaid(d.items[i])])
      [] d.t = "str" /\ "doc" \in DOMAIN d.s -> JText(d.s.doc, "min")
      [] OTHER -> d

\* a document with every boolean, embedded ones too, as the number 0 or 1
Numbered(d) ==
    CASE d.t = "obj" -> JObj([i \in 1..Len(d.kv) |-> <<d.kv[i][1], Numbered(d.kv[i][2])>>])
      [] d.t = "list" -> JList([i \in 1..Len(d.items) |-> Numbered(d.items[i])])
      [] d.t = "str" /\ "doc" \in DOMAIN d.s -> JText(Numbered(d.s.doc), d.s.fmt)
      [] d.t = "bool" -> JNum(IF d.b THEN "1" ELSE "0")
      [] OTHER -> d

RemoteDocs(config) ==
    LET local == IF BuildSpecRaises(config) THEN SpecDict(EmptyDict) ELSE SpecDict(config)
    IN { local, Relaid(local), Numbered(local),
         SetKey(local, K("id"), JStr("n1")),
         SpecDict(EmptyDict), SpecDict(FullNodeConfig),
         EmptyDict, JList(<<>>) }

GetNodeAnswers(config) ==
    { GetNodeRaises, NoNode, NodeWithoutSpec,
      NodeWith(JStr("")), NodeWith(JStr("<html>")), NodeWith(JStr("null")) }
        \cup { NodeWith(JsonDumps(d)) : d \in RemoteDocs(config) }

UpdIdle ==
    /\ upd_config = JNull /\ get_node = NoNode
    /\ upd_local = JNull /\ upd_remote = JNull
    /\ diff_count = NoCount /\ upd_calls = <<>>
    /\ upd_result = NoResult /\ updPc = "idle"

UpdStart ==
    /\ upd_config \in NodeConfigs
    /\ get_node \in GetNodeAnswers(upd_config)
    /\ upd_local = JNull /\ upd_remote = JNull
    /\ diff_count = NoCount /\ upd_calls = <<>>
    /\ upd_result = NoResult /\ updPc = "start"

-----------------------------------------------------------------------------
(***************************************************************************)
(* process_project.py: process_project(client, project_dir)                *)
(* The client is a DataWorksClient.  Its generate_task_content is not part *)
(* of the sources; it is written here from the specification: a job        *)
(* description with a reader step and a writer step, whose writer          *)
(* parameter names the table and the partition "<partition>='${bizdate}'". *)
(***************************************************************************)
GenerateTaskContent(config, i) ==
    LET table == GetKey(config, K("Tables")).items[i + 1]
    IN JObj(<<
        Item("steps", JList(<<
            JObj(<< Item("category", JStr("reader")),
                    Item("parameter", JObj(<<
                        Item("fileFormat", GetKey(table, K("Format"))) >>)) >>),
            JObj(<< Item("category", JStr("writer")),
                    Item("parameter", JObj(<<
                        Item("table", GetKey(table, K("Name"))),
                        Item("partition",
                             JStr(GetKey(table, K("Partition")).s.txt
                                    \o "='${bizdate}'")) >>)) >>) >>)) >>)

\* the index passed to generate_task_content for the i-th table
TableIndexFirst(i) == 0

TableIndex(i) == i

\* f"{project_name}_{table_name}"
JobName(config, i) ==
    GetKey(config, K("ProjectName")).s.txt \o "_"
        \o GetKey(GetKey(config, K("Tables")).items[i + 1], K("Name")).s.txt

NoStats == [created |-> 0, skipped |-> 0, failed |-> 0]

ProcTables == GetKey(proc_file.json, K("Tables")).items

\* `except Exception` and `if not file_id`: the table is counted as failed,
\* the loop continues with the next table
ProcFailedBreaks ==
    /\ stats' = [stats EXCEPT !.failed = @ + 1]
    /\ proc_i' = Len(ProcTables)
    /\ procPc' = "loop"

ProcFailedUncounted ==
    /\ stats' = stats
    /\ proc_i' = proc_i + 1
    /\ procPc' = "loop"

ProcFailed ==
    /\ stats' = [stats EXCEPT !.failed = @ + 1]
    /\ proc_i' = proc_i + 1
    /\ procPc' = "loop"

\* lines 26-42: config.json is looked for and loaded
ProcLoadConfig ==
    /\ procPc = "start"
    /\ IF ~proc_file.exists
       THEN /\ proc_result' = Returned([created |-> 0, skipped |-> 0, failed |-> 1])
            /\ procPc' = "done"
       ELSE IF ~proc_file.parses
       THEN /\ proc_result' = Raised("JSONDecodeError")
            /\ procPc' = "done"
       ELSE IF ~HasKey(proc_file.json, K("ProjectName")) \/ ~HasKey(proc_file.json, K("Tables"))
       THEN /\ proc_result' = Raised("KeyError")
            /\ procPc' = "done"
       ELSE /\ procPc' = "loop"
            /\ UNCHANGED proc_result
    /\ UNCHANGED <<proc_file, proc_i, stats, proc_calls, task_content, file_id, notProc>>

\* lines 44-50: the next table; table["Name"] is read outside the try
ProcBeginTable ==
    /\ procPc = "loop" /\ proc_i < Len(ProcTables)
    /\ IF HasKey(ProcTables[proc_i + 1], K("Name"))
       THEN /\ procPc' = "job_exists"
            /\ UNCHANGED proc_result
       ELSE /\ proc_result' = Raised("KeyError")
            /\ procPc' = "done"
    /\ UNCHANGED <<proc_file, proc_i, stats, proc_calls, task_content, file_id, notProc>>

\* `if client.job_exists(job_name)`, for what the call answered
JobExistsIgnored(answer) == FALSE

JobExists(answer) == answer = "yes"

\* lines 54-57: client.job_exists(job_name)
ProcJobExists ==
    /\ procPc = "job_exists"
    /\ \E answer \in {"yes", "no", "raise"} :
         /\ proc_calls' = Append(proc_calls,
                [op |-> "job_exists", table |-> proc_i, outcome |-> answer,
                 job |-> JobName(proc_file.json, proc_i)])
         /\ CASE answer = "raise" -> ProcFailed
              [] answer # "raise" /\ JobExists(answer) ->
                   /\ stats' = [stats EXCEPT !.skipped = @ + 1]
                   /\ proc_i' = proc_i + 1
                   /\ procPc' = "loop"
              [] OTHER ->
                   /\ procPc' = "ensure_oss"
                   /\ UNCHANGED <<stats, proc_i>>
    /\ UNCHANGED <<proc_file, task_content, file_id, proc_result, notProc>>

\* line 61: client.ensure_oss_datasource(config)
ProcEnsureOss ==
    /\ procPc = "ensure_oss"
    /\ \E answer \in {"ok", "raise"} :
         /\ proc_calls' = Append(proc_calls,
                [op |-> "ensure_oss_datasource", table |-> proc_i, outcome |-> answer])
         /\ IF answer = "ok" THEN procPc' = "ensure_odps" /\ UNCHANGED <<stats, proc_i>>
            ELSE ProcFailed
    /\ UNCHANGED <<proc_file, task_content, file_id, proc_result, notProc>>

\* line 62: client.ensure_odps_datasource(config)
ProcEnsureOdps ==
    /\ procPc = "ensure_odps"
    /\ \E answer \in {"ok", "raise"} :
         /\ proc_calls' = Append(proc_calls,
                [op |-> "ensure_odps_datasource", table |-> proc_i, outcome |-> answer])
         /\ IF answer = "ok" THEN procPc' = "generate" /\ UNCHANGED <<stats, proc_i>>
            ELSE ProcFailed
    /\ UNCHANGED <<proc_file, task_content, file_id, proc_result, notProc>>

\* lines 65-67: task_content = client.generate_task_content(config, i)
ProcGenerate ==
    /\ procPc = "generate"
    /\ \E answer \in {"ok", "raise"} :
         /\ proc_calls' = Append(proc_calls,
                [op |-> "generate_task_content", table |-> proc_i, outcome |-> answer,
                 index |-> TableIndex(proc_i)])
         /\ IF answer = "ok"
            THEN /\ task_content' = GenerateTaskContent(proc_file.json, TableIndex(proc_i))
                 /\ procPc' = "create"
                 /\ UNCHANGED <<stats, proc_i>>
            ELSE ProcFailed /\ UNCHANGED task_content
    /\ UNCHANGED <<proc_file, file_id, proc_result, notProc>>

\* lines 69-75: config["ResourceGroupIdentifier"], then
\* file_id = client.create_sync_task(job_name, task_content, resource_group)
ProcCreateSyncTask ==
    /\ procPc = "create"
    /\ IF ~HasKey(proc_file.json, K("ResourceGroupIdentifier"))
       THEN ProcFailed /\ UNCHANGED <<proc_calls, file_id>>
       ELSE \E answer \in {"id", "none", "raise"} :
              /\ proc_calls' = Append(proc_calls,
                     [op |-> "create_sync_task", table |-> proc_i, outcome |-> answer,
                      job |-> JobName(proc_file.json, proc_i),
                      task_content |-> task_content,
                      resource_group |-> GetKey(proc_file.json, K("ResourceGroupIdentifier"))])
              /\ IF answer = "raise" THEN ProcFailed /\ UNCHANGED file_id
                 ELSE /\ file_id' = (IF answer = "id" THEN JNum("101") ELSE JNull)
                      /\ IF Truthy(file_id')
                         THEN procPc' = "submit" /\ UNCHANGED <<stats, proc_i>>
                         ELSE ProcFailed
    /\ UNCHANGED <<proc_file, task_content, proc_result, notProc>>

\* line 78: client.submit_file(file_id)
ProcSubmit ==
    /\ procPc = "submit"
    /\ \E answer \in {"ok", "raise"} :
         /\ proc_calls' = Append(proc_calls,
                [op |-> "submit_file", table |-> proc_i, outcome |-> answer,
                 file_id |-> file_id])
         /\ IF answer = "ok" THEN procPc' = "deploy" /\ UNCHANGED <<stats, proc_i>>
            ELSE ProcFailed
    /\ UNCHANGED <<proc_file, task_content, file_id, proc_result, notProc>>

\* lines 81-84: client.deploy_file(file_id)
ProcDeploy ==
    /\ procPc = "deploy"
    /\ \E answer \in {"ok", "raise"} :
         /\ proc_calls' = Append(proc_calls,
                [op |-> "deploy_file", table |-> proc_i, outcome |-> answer,
                 file_id |-> file_id])
         /\ IF answer = "ok"
            THEN /\ stats' = [stats EXCEPT !.created = @ + 1]
                 /\ proc_i' = proc_i + 1
                 /\ procPc' = "loop"
            ELSE ProcFailed
    /\ UNCHANGED <<proc_file, task_content, file_id, proc_result, notProc>>

\* lines 91-96: the loop is over, the summary is logged, stats returned
ProcSummary ==
    /\ procPc = "loop" /\ proc_i >= Len(ProcTables)
    /\ proc_result' = Returned(stats)
    /\ procPc' = "done"
    /\ UNCHANGED <<proc_file, proc_i, stats, proc_calls, task_content, file_id, notProc>>

NextProc ==
    \/ ProcLoadConfig
    \/ ProcBeginTable
    \/ ProcJobExists
    \/ ProcEnsureOss
    \/ ProcEnsureOdps
    \/ ProcGenerate
    \/ ProcCreateSyncTask
    \/ ProcSubmit
    \/ ProcDeploy
    \/ ProcSummary

(***************************************************************************)
(* The projects tried: config.json missing, not JSON, without ProjectName, *)
(* or with up to MaxProjTables tables, with or without                     *)
(* ResourceGroupIdentifier.                                                *)
(***************************************************************************)
MaxProjTables == 2

TableT1 ==
    JObj(<< Item("Name", JStr("t1")), Item("Format", JStr("parquet")),
            Item("Partition", JStr("pt")) >>)

TableT2 ==
    JObj(<< Item("Name", JStr("t2")), Item("Format", JStr("csv")),
            Item("Partition", JStr("ds")) >>)

TableWithoutName ==
    JObj(<< Item("Format", JStr("csv")), Item("Partition", JStr("ds")) >>)

ProjTableLists ==
    UNION { [1..n -> {TableT1, TableT2, TableWithoutName}] : n \in 0..MaxProjTables }

ProjectConfigs ==
    { JObj(<< Item("Tables", JList(<<TableT1>>)) >>) }
        \cup { JObj(<< Item("ProjectName", JStr("p")), Item("Tables", JList(l)) >>) :
                 l \in ProjTableLists }
        \cup { JObj(<< Item("ProjectName", JStr("p")),
                       Item("ResourceGroupIdentifier", JStr("rg")),
                       Item("Tables", JList(l)) >>) : l \in ProjTableLists }

ProcIdle ==
    /\ proc_file = Absent /\ proc_i = 0 /\ stats = NoStats
    /\ proc_calls = <<>> /\ task_content = JNull /\ file_id = JNull
    /\ proc_result = NoResult /\ procPc = "idle"

ProcStart ==
    /\ proc_file \in {Absent, Garbage} \cup { FileOf(c) : c \in ProjectConfigs }
    /\ proc_i = 0 /\ stats = NoStats
    /\ proc_calls = <<>> /\ task_content = JNull /\ file_id = JNull
    /\ proc_result = NoResult /\ procPc = "start"

-----------------------------------------------------------------------------
(***************************************************************************)
(* dataworks_client.py: get_node_id(client, project_id, node_name)         *)
(***************************************************************************)
\* What ListFiles answers: it raises (an SDK error with a message, or any
\* other Exception), or the response has no body, no data, no files, or a
\* list of files.
ListFilesRaises(with_message) == [kind |-> "raise", message |-> with_message]
ListFilesNoBody == [kind |-> "ok", body |-> FALSE]
ListFilesNoData == [kind |-> "ok", body |-> TRUE, data |-> FALSE]
ListFilesNoFiles == [kind |-> "ok", body |-> TRUE, data |-> TRUE, has_files |-> FALSE]
ListFilesOf(fs) == [kind |-> "ok", body |-> TRUE, data |-> TRUE, has_files |-> TRUE, files |-> fs]

\* resp.body.data.files if (resp.body and resp.body.data and
\* resp.body.data.files) else []
FilesOfResponse(resp) ==
    IF resp.body /\ resp.data /\ resp.has_files THEN resp.files ELSE <<>>

\* `except Exception as error: ... return None`
OnListFilesErrorReraise == Raised("Exception")

OnListFilesError == Returned(JNull)

\* lines 256-272: the request is sent inside the try
NodeIdListFiles ==
    /\ nidPc = "start"
    /\ nid_calls' = Append(nid_calls, [op |-> "ListFiles", exact_file_name |-> nid_name])
    /\ IF list_files.kind = "raise"
       THEN /\ nid_result' = OnListFilesError
            /\ nidPc' = "done"
            /\ UNCHANGED nid_files
       ELSE /\ nid_files' = FilesOfResponse(list_files)
            /\ nidPc' = "look"
            /\ UNCHANGED nid_result
    /\ UNCHANGED <<nid_name, list_files, notNid>>

\* lines 274-282: None when there is no file, else files[0].file_id
NodeIdReturn ==
    /\ nidPc = "look"
    /\ nid_result' = IF nid_files = <<>> THEN Returned(JNull)
                     ELSE Returned(nid_files[1].file_id)
    /\ nidPc' = "done"
    /\ UNCHANGED <<nid_name, list_files, nid_files, nid_calls, notNid>>

NextNid == NodeIdListFiles \/ NodeIdReturn

(***************************************************************************)
(* The answers tried: every failure, and up to MaxFiles files.             *)
(***************************************************************************)
MaxFiles == 2

FileEntries ==
    [file_id : {JNum("7"), JNum("8"), JNum("9")}, node_id : {JNum("70"), JNull}]

ListFilesAnswers ==
    { ListFilesRaises(TRUE), ListFilesRaises(FALSE),
      ListFilesNoBody, ListFilesNoData, ListFilesNoFiles }
        \cup { ListFilesOf(fs) : fs \in UNION { [1..n -> FileEntries] : n \in 0..MaxFiles } }

NidIdle ==
    /\ nid_name = "" /\ list_files = ListFilesNoBody /\ nid_files = <<>>
    /\ nid_calls = <<>> /\ nid_result = NoResult /\ nidPc = "idle"

NidStart ==
    /\ nid_name = "n0" /\ list_files \in ListFilesAnswers /\ nid_files = <<>>
    /\ nid_calls = <<>> /\ nid_result = NoResult /\ nidPc = "start"

-----------------------------------------------------------------------------
(***************************************************************************)
(* dataworks_client.py: create_client, as the entry points call it         *)
(***************************************************************************)
\* lines 40-41, 45-47: sys.exit(1) unless both credentials are non-empty
CreateClientExits(env) ==
    \/ EnvGet(env, "ALIBABA_CLOUD_ACCESS_KEY_ID", "") = ""
    \/ EnvGet(env, "ALIBABA_CLOUD_ACCESS_KEY_SECRET", "") = ""

\* line 42: the region the client is built for
ClientRegion(env) == EnvGet(env, "ALIYUN_REGION", "cn-shanghai")

-----------------------------------------------------------------------------
(***************************************************************************)
(* publish_node.py                                                         *)
(***************************************************************************)
POLL_INTERVAL_SEC == 10
POLL_TIMEOUT_SEC == 300

DwEnvNames ==
    { "DATAWORKS_PROJECT_ID", "ALIBABA_CLOUD_ACCESS_KEY_ID",
      "ALIBABA_CLOUD_ACCESS_KEY_SECRET", "ALIYUN_REGION" }

\* `while elapsed < POLL_TIMEOUT_SEC`
PollAgainInclusive(secs) == secs <= POLL_TIMEOUT_SEC

PollAgain(secs) == secs < POLL_TIMEOUT_SEC

\* the ListFiles answers tried: the failures, and up to MaxFiles files
\* found by the keyword search
PubFileEntries ==
    { [file_name |-> "n0", file_id |-> 7], [file_name |-> "n0", file_id |-> 8],
      [file_name |-> "n0_bak", file_id |-> 9] }

PubListFilesAnswers ==
    { ListFilesRaises(TRUE), ListFilesNoBody, ListFilesNoData, ListFilesNoFiles }
        \cup { ListFilesOf(fs) : fs \in UNION { [1..n -> PubFileEntries] : n \in 1..MaxFiles } }

\* main, lines 157-163: task-config.json is read for node_name
PubReadConfig ==
    /\ pubPc = "start"
    /\ pubPc' = IF ~pub_file.exists THEN "exit1"
                ELSE IF ~pub_file.parses THEN "crash"
                ELSE IF ~HasKey(pub_file.json, K("node_name")) THEN "crash"
                ELSE "project_id"
    /\ UNCHANGED <<pub_env, pub_file, pub_region, pub_calls, pub_files, pub_file_id, deployment_id, pub_status, elapsed, notPub>>

\* main, lines 166-170: DATAWORKS_PROJECT_ID, then int() of it
PubProjectId ==
    /\ pubPc = "project_id"
    /\ pubPc' = IF EnvGet(pub_env, "DATAWORKS_PROJECT_ID", "") = "" THEN "exit1"
                ELSE IF Strip(pub_env["DATAWORKS_PROJECT_ID"]) = "" THEN "crash"
                ELSE "client"
    /\ UNCHANGED <<pub_env, pub_file, pub_region, pub_calls, pub_files, pub_file_id, deployment_id, pub_status, elapsed, notPub>>

\* main, line 173: client = create_client()
PubCreateClient ==
    /\ pubPc = "client"
    /\ IF CreateClientExits(pub_env)
       THEN pubPc' = "exit1" /\ UNCHANGED pub_region
       ELSE pubPc' = "list" /\ pub_region' = ClientRegion(pub_env)
    /\ UNCHANGED <<pub_env, pub_file, pub_calls, pub_files, pub_file_id, deployment_id, pub_status, elapsed, notPub>>

\* get_file_id after the ListFiles call: the exception is not caught, a
\* missing exact match is sys.exit(1), a match is returned to main
AfterListFilesRetry(answer) ==
    CASE answer = "raise" -> "list"
      [] answer = "match" -> "submit"
      [] OTHER -> "exit1"

AfterListFiles(answer) ==
    CASE answer = "raise" -> "crash"
      [] answer = "match" -> "submit"
      [] OTHER -> "exit1"

\* node_name = config["node_name"]
PubNodeName(file) == GetKey(file.json, K("node_name")).s.txt

\* resp.body.data.files if (resp.body.data and resp.body.data.files) else []
PubFilesOfResponse(resp) ==
    IF resp.data /\ resp.has_files THEN resp.files ELSE <<>>

\* `f.file_name == node_name`
NameMatchesAny(file_name, node_name) == TRUE

NameMatches(file_name, node_name) == file_name = node_name

\* matched = [f for f in files if f.file_name == node_name]
Matched(files, node_name) ==
    SelectSeq(files, LAMBDA f : NameMatches(f.file_name, node_name))

\* how the ListFiles call of get_file_id ends: it raises (also on a
\* response without body, read as resp.body.data), or matched is empty
\* ("none": no files at all, "other": only other names), or not
ListFilesOutcome(resp, node_name) ==
    IF resp.kind = "raise" \/ ~resp.body THEN "raise"
    ELSE IF PubFilesOfResponse(resp) = <<>> THEN "none"
    ELSE IF Matched(PubFilesOfResponse(resp), node_name) = <<>> THEN "other"
    ELSE "match"

\* get_file_id: the ListFiles call, the exact match, matched[0].file_id
PubGetFileId ==
    /\ pubPc = "list"
    /\ pub_calls' = Append(pub_calls, "ListFiles")
    /\ \E resp \in PubListFilesAnswers :
          LET outcome == ListFilesOutcome(resp, PubNodeName(pub_file))
          IN /\ pub_files' = resp
             /\ pubPc' = AfterListFiles(outcome)
             /\ pub_file_id' =
                    IF outcome = "match"
                    THEN Matched(PubFilesOfResponse(resp), PubNodeName(pub_file))[1].file_id
                    ELSE pub_file_id
    /\ UNCHANGED <<pub_env, pub_file, pub_region, deployment_id, pub_status, elapsed, notPub>>

\* submit_file: SubmitFile raises, answers without a deployment id, or with one
PubSubmitFile ==
    /\ pubPc = "submit"
    /\ pub_calls' = Append(pub_calls, "SubmitFile")
    /\ \E answer \in {"raise", "none", "id"} :
          /\ pubPc' = CASE answer = "raise" -> "crash"
                        [] answer = "id" -> "poll"
                        [] OTHER -> "exit1"
          /\ deployment_id' = IF answer = "id" THEN "d1" ELSE deployment_id
    /\ UNCHANGED <<pub_env, pub_file, pub_region, pub_files, pub_file_id, pub_status, elapsed, notPub>>

\* `elif status in ("Fail", "Rejected", "Abort")`
DeploymentFailedNoAbort(status) == status \in {"Fail", "Rejected"}

DeploymentFailed(status) == status \in {"Fail", "Rejected", "Abort"}

\* wait_for_deployment, lines 114-137: one pass of the loop.  "Unknown" is
\* the status taken when the response has no deployment.
PubGetDeployment ==
    /\ pubPc = "poll" /\ PollAgain(elapsed)
    /\ pub_calls' = Append(pub_calls, "GetDeployment")
    /\ \E answer \in {"raise", "Success", "Fail", "Rejected", "Abort", "Running", "Unknown"} :
          /\ pub_status' = answer
          /\ pubPc' = CASE answer = "raise" -> "crash"
                        [] answer = "Success" -> "exit0"
                        [] DeploymentFailed(answer) -> "exit1"
                        [] OTHER -> "poll"
          /\ elapsed' = IF answer \in {"raise", "Success"} \/ DeploymentFailed(answer)
                        THEN elapsed ELSE elapsed + POLL_INTERVAL_SEC
    /\ UNCHANGED <<pub_env, pub_file, pub_region, pub_files, pub_file_id, deployment_id, notPub>>

\* wait_for_deployment, lines 139-140: the loop ended without a return
PubTimeout ==
    /\ pubPc = "poll" /\ ~PollAgain(elapsed)
    /\ pubPc' = "exit1"
    /\ UNCHANGED <<pub_env, pub_file, pub_region, pub_calls, pub_files, pub_file_id, deployment_id, pub_status, elapsed, notPub>>

NextPub ==
    \/ PubReadConfig \/ PubProjectId \/ PubCreateClient
    \/ PubGetFileId \/ PubSubmitFile \/ PubGetDeployment \/ PubTimeout

TaskConfigFiles ==
    { Absent, Garbage, FileOf(EmptyDict), FileOf(JObj(<<Item("node_name", JStr("n0"))>>)) }

PubIdle ==
    /\ pub_env = <<>> /\ pub_file = Absent /\ pub_region = "" /\ pub_calls = <<>>
    /\ pub_files = ListFilesNoBody /\ pub_file_id = 0 /\ deployment_id = ""
    /\ pub_status = "" /\ elapsed = 0 /\ pubPc = "idle"

PubStart ==
    /\ pub_env \in Environments(DwEnvNames)
    /\ pub_file \in TaskConfigFiles
    /\ pub_region = "" /\ pub_calls = <<>>
    /\ pub_files = ListFilesNoBody /\ pub_file_id = 0 /\ deployment_id = ""
    /\ pub_status = "" /\ elapsed = 0
    /\ pubPc = "start"

-----------------------------------------------------------------------------
(***************************************************************************)
(* create_mc_ds.py and create_oss_ds.py: one run of main of either script  *)
(* (ds_script is "mc" or "oss").                                           *)
(***************************************************************************)
\* the configuration main starts from: create_mc_ds reads
\* maxcompute-datasource.json itself (lines 33-39); create_oss_ds calls
\* load_merged_oss_ds_config (line 33)
DsLoad(script, file, glob) ==
    IF script = "mc" THEN LoadBaseConfig(file) ELSE LoadMergedOssDsConfig(file, glob)

\* the names main reads while it builds connection_properties:
\* create_mc_ds reads ds_config (bound at line 39); create_oss_ds reads
\* ds_config too (lines 50-51), a name it never binds
DsConfigBound(script) == script = "mc"

\* what the handler around the CreateDataSource call ends with:
\* create_mc_ds calls sys.exit(1) (lines 86-89); create_oss_ds prints and
\* goes on to the end of main (lines 89-91)
DsOnCreateFailure(script) == IF script = "mc" THEN "exit1" ELSE "exit0"

DsLoadConfig ==
    /\ dsPc = "start"
    /\ LET loaded == DsLoad(ds_script, ds_file, ds_global)
       IN IF loaded.kind = "raise"
          THEN /\ dsPc' = IF loaded.exc = "FileNotFoundError" THEN "exit1" ELSE "crash"
               /\ UNCHANGED ds_config
          ELSE /\ dsPc' = "credentials"
               /\ ds_config' = loaded.value
    /\ UNCHANGED <<ds_script, ds_env, ds_file, ds_global, ds_region, ds_calls, notDs>>

\* `if not ak or not sk: sys.exit(1)`
DsCredentials ==
    /\ dsPc = "credentials"
    /\ dsPc' = IF CreateClientExits(ds_env) THEN "exit1" ELSE "properties"
    /\ UNCHANGED <<ds_script, ds_env, ds_file, ds_global, ds_config, ds_region, ds_calls, notDs>>

\* region and connection_properties: NameError on an unbound name,
\* KeyError when create_mc_ds finds no "project"
DsConnectionProperties ==
    /\ dsPc = "properties"
    /\ ds_region' = ClientRegion(ds_env)
    /\ dsPc' = IF ~DsConfigBound(ds_script) THEN "crash"
               ELSE IF ~HasKey(ds_config, K("project")) THEN "crash"
               ELSE "project_id"
    /\ UNCHANGED <<ds_script, ds_env, ds_file, ds_global, ds_config, ds_calls, notDs>>

\* DATAWORKS_PROJECT_ID, int() of it, and the line printed with the name
DsProjectId ==
    /\ dsPc = "project_id"
    /\ dsPc' = IF EnvGet(ds_env, "DATAWORKS_PROJECT_ID", "") = "" THEN "exit1"
               ELSE IF Strip(ds_env["DATAWORKS_PROJECT_ID"]) = "" THEN "crash"
               ELSE IF ~HasKey(ds_config, K("name")) THEN "crash"
               ELSE "client"
    /\ UNCHANGED <<ds_script, ds_env, ds_file, ds_global, ds_config, ds_region, ds_calls, notDs>>

\* client = create_client()
DsCreateClient ==
    /\ dsPc = "client"
    /\ dsPc' = IF CreateClientExits(ds_env) THEN "exit1" ELSE "create"
    /\ UNCHANGED <<ds_script, ds_env, ds_file, ds_global, ds_config, ds_region, ds_calls, notDs>>

\* the fields of CreateDataSourceRequest taken from the configuration:
\* create_mc_ds.py:53-63 and 76, create_oss_ds.py:71-83
DsRequest(script, config) ==
    IF script = "mc"
    THEN [name |-> GetKey(config, K("name")),
          project |-> GetKey(config, K("project")),
          endpoint |-> DictGet(config, K("endpoint"), JNull)]
    ELSE [name |-> DictGet(config, K("name"), JNull),
          bucket |-> DictGet(config, K("bucket"), JNull),
          endpoint |-> DictGet(config, K("endpoint"), JNull)]

\* the CreateDataSource call in its try statement
DsCreateDataSource ==
    /\ dsPc = "create"
    /\ \E answer \in {"ok", "raise"} :
          /\ ds_calls' = Append(ds_calls, [op |-> "CreateDataSource", outcome |-> answer,
                                           region |-> ds_region,
                                           request |-> DsRequest(ds_script, ds_config)])
          /\ dsPc' = IF answer = "ok" THEN "exit0" ELSE DsOnCreateFailure(ds_script)
    /\ UNCHANGED <<ds_script, ds_env, ds_file, ds_global, ds_config, ds_region, notDs>>

NextDs ==
    \/ DsLoadConfig \/ DsCredentials \/ DsConnectionProperties
    \/ DsProjectId \/ DsCreateClient \/ DsCreateDataSource

\* the configuration file of the script, complete or lacking one key
DsFull(script) == IF script = "mc" THEN FullMcConfig ELSE FullOssConfig

DsFiles(script) ==
    {Absent, Garbage, FileOf(DsFull(script))}
        \cup { FileOf(JObj(Pick(DsFull(script).kv, (1..5) \ {k}, 1))) : k \in {1, 3} }

DsGlobals == { Absent, FileOf(GlobalWith("oss", FullDsGlobal)) }

DsIdle ==
    /\ ds_script = "" /\ ds_env = <<>> /\ ds_file = Absent /\ ds_global = Absent
    /\ ds_config = EmptyDict /\ ds_region = "" /\ ds_calls = <<>> /\ dsPc = "idle"

DsStart ==
    /\ ds_script \in {"mc", "oss"}
    /\ ds_env \in Environments(DwEnvNames)
    /\ ds_file \in DsFiles(ds_script)
    /\ ds_global \in DsGlobals
    /\ ds_config = EmptyDict /\ ds_region = "" /\ ds_calls = <<>> /\ dsPc = "start"

-----------------------------------------------------------------------------
(***************************************************************************)
(* deploy.py: one run of main without --step, that is create_client and    *)
(* deploy_all.  process_project is the procedure modelled above; here a    *)
(* call of it is one step with one of its outcomes: "ok" (stats with       *)
(* failed = 0), "failed" (stats with failed > 0) or "raise".               *)
(***************************************************************************)
\* create_client: the four get_env_or_fail calls, in the order of the
\* keyword arguments
DeployEnvNames ==
    << "ALIBABA_CLOUD_ACCESS_KEY_ID", "ALIBABA_CLOUD_ACCESS_KEY_SECRET",
       "ALIYUN_REGION", "DATAWORKS_PROJECT_ID" >>

DeployCreateClientExits(env) ==
    \E i \in 1..Len(DeployEnvNames) : EnvFails(env, DeployEnvNames[i])

\* d.is_dir(), and d.is_dir() and (d / "config.json").exists(), of an
\* entry of the projects directory: "none" | "dir" | "config"
IsDirAlways(fs, name) == TRUE

IsDir(fs, name) == fs[name] # "none"

HasConfig(fs, name) == fs[name] = "config"

\* sorted(projects_path.iterdir()), filtered
Discovered(fs) ==
    (IF HasConfig(fs, "A") THEN <<"A">> ELSE <<>>)
        \o (IF HasConfig(fs, "B") THEN <<"B">> ELSE <<>>)

\* what process_project can answer for a project directory: without
\* config.json it returns failed = 1 (process_project.py:27-30)
ProcessProjectOutcomes(fs, name) ==
    IF HasConfig(fs, name) THEN {"ok", "failed", "raise"} ELSE {"failed"}

\* `if total_failed > 0: sys.exit(1)`
SomeFailedMoreThanOne(n) == n > 1

SomeFailed(n) == n > 0

\* main, line 253
DepCreateClient ==
    /\ depPc = "start"
    /\ depPc' = IF DeployCreateClientExits(dep_env) THEN "exit1" ELSE "list"
    /\ UNCHANGED <<dep_env, target_projects, dep_fs, project_dirs, dep_reports, total_failed, total_success, notDep>>

\* deploy_all, lines 171-189: the project list
DepBuildList ==
    /\ depPc = "list"
    /\ IF target_projects # <<>>
       THEN IF \E k \in 1..Len(target_projects) : ~IsDir(dep_fs, target_projects[k])
            THEN depPc' = "exit1" /\ UNCHANGED project_dirs
            ELSE depPc' = "loop" /\ project_dirs' = target_projects
       ELSE IF ~dep_fs.root
            THEN depPc' = "crash" /\ UNCHANGED project_dirs
            ELSE IF Discovered(dep_fs) = <<>>
            THEN depPc' = "exit1" /\ UNCHANGED project_dirs
            ELSE depPc' = "loop" /\ project_dirs' = Discovered(dep_fs)
    /\ UNCHANGED <<dep_env, target_projects, dep_fs, dep_reports, total_failed, total_success, notDep>>

\* deploy_all, lines 194-199: one pass of the loop
DepProcessProject ==
    /\ depPc = "loop" /\ Len(dep_reports) < Len(project_dirs)
    /\ LET name == project_dirs[Len(dep_reports) + 1]
       IN \E outcome \in ProcessProjectOutcomes(dep_fs, name) :
             /\ dep_reports' = Append(dep_reports, [project |-> name, outcome |-> outcome])
             /\ depPc' = IF outcome = "raise" THEN "crash" ELSE "loop"
             /\ total_failed' = IF outcome = "failed" THEN total_failed + 1 ELSE total_failed
             /\ total_success' = IF outcome = "ok" THEN total_success + 1 ELSE total_success
    /\ UNCHANGED <<dep_env, target_projects, dep_fs, project_dirs, notDep>>

\* deploy_all, lines 201-213
DepSummary ==
    /\ depPc = "loop" /\ Len(dep_reports) = Len(project_dirs)
    /\ depPc' = IF SomeFailed(total_failed) THEN "exit1" ELSE "exit0"
    /\ UNCHANGED <<dep_env, target_projects, dep_fs, project_dirs, dep_reports, total_failed, total_success, notDep>>

NextDep == DepCreateClient \/ DepBuildList \/ DepProcessProject \/ DepSummary

\* --projects: none, or a list of names
TargetLists == { <<>>, <<"A">>, <<"B">>, <<"A", "B">>, <<"B", "A">> }

ProjectsDirs == [root : {TRUE}, A : {"none", "dir", "config"}, B : {"none", "dir", "config"}]
                    \cup {[root |-> FALSE, A |-> "none", B |-> "none"]}

DepIdle ==
    /\ dep_env = <<>> /\ target_projects = <<>>
    /\ dep_fs = [root |-> FALSE, A |-> "none", B |-> "none"]
    /\ project_dirs = <<>> /\ dep_reports = <<>>
    /\ total_failed = 0 /\ total_success = 0 /\ depPc = "idle"

DepStart ==
    /\ dep_env \in Environments(DwEnvNames)
    /\ target_projects \in TargetLists
    /\ dep_fs \in ProjectsDirs
    /\ project_dirs = <<>> /\ dep_reports = <<>>
    /\ total_failed = 0 /\ total_success = 0 /\ depPc = "start"

-----------------------------------------------------------------------------
(***************************************************************************)
(* dataworks_client.py: one call of create_node                            *)
(***************************************************************************)
\* line 215: spec_json = build_spec(config)
CnBuildSpec ==
    /\ cnPc = "start"
    /\ IF BuildSpecRaises(cn_config)
       THEN cn_result' = Raised("AttributeError") /\ cnPc' = "done"
       ELSE cnPc' = "create" /\ UNCHANGED cn_result
    /\ UNCHANGED <<cn_config, cn_calls, notCn>>

\* lines 226-234: the CreateNode call; the handler prints and raises again
CnCreateNode ==
    /\ cnPc = "create"
    /\ \E answer \in {"ok", "raise"} :
          /\ cn_calls' = Append(cn_calls, [op |-> "CreateNode", spec |-> BuildSpec(cn_config),
                                           outcome |-> answer])
          /\ cn_result' = IF answer = "ok" THEN Returned(JNull) ELSE Raised("Exception")
    /\ cnPc' = "done"
    /\ UNCHANGED <<cn_config, notCn>>

NextCn == CnBuildSpec \/ CnCreateNode

CnIdle == cn_config = JNull /\ cn_calls = <<>> /\ cn_result = NoResult /\ cnPc = "idle"

CnStart ==
    /\ cn_config \in NodeConfigs
    /\ cn_calls = <<>> /\ cn_result = NoResult /\ cnPc = "start"

-----------------------------------------------------------------------------
(***************************************************************************)
(* create_table.py: one run of main                                        *)
(***************************************************************************)
\* config["writer"]["table"] raises KeyError or TypeError
WriterTableRaises(config) ==
    \/ ~HasKey(config, K("writer"))
    \/ GetKey(config, K("writer")).t # "obj"
    \/ ~HasKey(GetKey(config, K("writer")), K("table"))

\* build_ddl raises KeyError: no "columns", or a column without one of
\* name, type, comment
BuildDdlRaises(odps_table) ==
    \/ ~HasKey(odps_table, K("columns"))
    \/ LET cols == GetKey(odps_table, K("columns")).items
       IN \E i \in 1..Len(cols) :
              \E k \in {"name", "type", "comment"} : ~HasKey(cols[i], K(k))

\* lines 95-110: config.json, odps_table, the table name
TblReadConfig ==
    /\ tblPc = "start"
    /\ tblPc' = IF ~tbl_file.exists THEN "exit1"
                ELSE IF ~tbl_file.parses THEN "crash"
                ELSE IF ~Truthy(DictGet(tbl_file.json, K("odps_table"), JNull)) THEN "exit1"
                ELSE IF WriterTableRaises(tbl_file.json) THEN "crash"
                ELSE "connect"
    /\ UNCHANGED <<tbl_env, tbl_file, tbl_calls, notTbl>>

\* lines 114-119: the ODPS object, built from four get_env_or_fail calls
TblConnect ==
    /\ tblPc = "connect"
    /\ tblPc' = IF \E i \in 1..Len(CleanEnvNames) : EnvFails(tbl_env, CleanEnvNames[i])
                THEN "exit1" ELSE "ddl"
    /\ UNCHANGED <<tbl_env, tbl_file, tbl_calls, notTbl>>

\* line 122: ddl = build_ddl(table_name, odps_table)
TblBuildDdl ==
    /\ tblPc = "ddl"
    /\ tblPc' = IF BuildDdlRaises(GetKey(tbl_file.json, K("odps_table")))
                THEN "crash" ELSE "execute"
    /\ UNCHANGED <<tbl_env, tbl_file, tbl_calls, notTbl>>

\* line 128: o.execute_sql(ddl) returns, or raises
TblExecuteSql ==
    /\ tblPc = "execute"
    /\ tbl_calls' = Append(tbl_calls, [op |-> "execute_sql",
                                       table |-> GetKey(GetKey(tbl_file.json, K("writer")), K("table"))])
    /\ \E ok \in BOOLEAN : tblPc' = IF ok THEN "exit0" ELSE "crash"
    /\ UNCHANGED <<tbl_env, tbl_file, notTbl>>

NextTbl == TblReadConfig \/ TblConnect \/ TblBuildDdl \/ TblExecuteSql

OdpsColumn ==
    JObj(<<Item("name", JStr("c1")), Item("type", JStr("STRING")), Item("comment", JStr("*"))>>)

TableConfigFiles ==
    { Absent, Garbage, FileOf(EmptyDict),
      FileOf(JObj(<<Item("odps_table", EmptyDict)>>)),
      FileOf(JObj(<<Item("odps_table", JObj(<<Item("columns", JList(<<OdpsColumn>>))>>))>>)),
      FileOf(JObj(<<Item("odps_table", JObj(<<Item("lifecycle", JNum("7"))>>)),
                    Item("writer", JObj(<<Item("table", JStr("t0"))>>))>>)),
      FileOf(JObj(<<Item("odps_table", JObj(<<Item("columns", JList(<<OdpsColumn>>))>>)),
                    Item("writer", JObj(<<Item("table", JStr("t0"))>>))>>)) }

TblIdle == tbl_env = <<>> /\ tbl_file = Absent /\ tbl_calls = <<>> /\ tblPc = "idle"

TblStart ==
    /\ tbl_env \in Environments({ CleanEnvNames[i] : i \in 1..Len(CleanEnvNames) })
    /\ tbl_file \in TableConfigFiles
    /\ tbl_calls = <<>> /\ tblPc = "start"

-----------------------------------------------------------------------------
(***************************************************************************)
(* The specifications.                                                     *)
(***************************************************************************)
InitDiff ==
    DiffStart /\ MergeIdle /\ CleanIdle /\ UpdIdle /\ ProcIdle /\ NidIdle /\ PubIdle /\ DsIdle /\ DepIdle /\ CnIdle /\ TblIdle
SpecDiff == InitDiff /\ [][NextDiff]_vars

InitMerge ==
    MergeStart /\ DiffIdle /\ CleanIdle /\ UpdIdle /\ ProcIdle /\ NidIdle /\ PubIdle /\ DsIdle /\ DepIdle /\ CnIdle /\ TblIdle
SpecMerge == InitMerge /\ [][NextMerge]_vars

InitClean ==
    CleanStart /\ DiffIdle /\ MergeIdle /\ UpdIdle /\ ProcIdle /\ NidIdle /\ PubIdle /\ DsIdle /\ DepIdle /\ CnIdle /\ TblIdle
SpecClean == InitClean /\ [][NextClean]_vars

InitUpd ==
    UpdStart /\ DiffIdle /\ MergeIdle /\ CleanIdle /\ ProcIdle /\ NidIdle /\ PubIdle /\ DsIdle /\ DepIdle /\ CnIdle /\ TblIdle
SpecUpd == InitUpd /\ [][NextUpd]_vars

InitProc ==
    ProcStart /\ DiffIdle /\ MergeIdle /\ CleanIdle /\ UpdIdle /\ NidIdle /\ PubIdle /\ DsIdle /\ DepIdle /\ CnIdle /\ TblIdle
SpecProc == InitProc /\ [][NextProc]_vars

InitNid ==
    NidStart /\ DiffIdle /\ MergeIdle /\ CleanIdle /\ UpdIdle /\ ProcIdle /\ PubIdle /\ DsIdle /\ DepIdle /\ CnIdle /\ TblIdle
SpecNid == InitNid /\ [][NextNid]_vars

InitPub ==
    PubStart /\ DiffIdle /\ MergeIdle /\ CleanIdle /\ UpdIdle /\ ProcIdle /\ NidIdle /\ DsIdle /\ DepIdle /\ CnIdle /\ TblIdle
SpecPub == InitPub /\ [][NextPub]_vars

InitDs ==
    DsStart /\ DiffIdle /\ MergeIdle /\ CleanIdle /\ UpdIdle /\ ProcIdle /\ NidIdle /\ PubIdle /\ DepIdle /\ CnIdle /\ TblIdle
SpecDs == InitDs /\ [][NextDs]_vars

InitDep ==
    DepStart /\ DiffIdle /\ MergeIdle /\ CleanIdle /\ UpdIdle /\ ProcIdle /\ NidIdle /\ PubIdle /\ DsIdle /\ CnIdle /\ TblIdle
SpecDep == InitDep /\ [][NextDep]_vars

InitCn ==
    CnStart /\ DiffIdle /\ MergeIdle /\ CleanIdle /\ UpdIdle /\ ProcIdle /\ NidIdle /\ PubIdle /\ DsIdle /\ DepIdle /\ TblIdle
SpecCn == InitCn /\ [][NextCn]_vars

InitTbl ==
    TblStart /\ DiffIdle /\ MergeIdle /\ CleanIdle /\ UpdIdle /\ ProcIdle /\ NidIdle /\ PubIdle /\ DsIdle /\ DepIdle /\ CnIdle
SpecTbl == InitTbl /\ [][NextTbl]_vars

-----------------------------------------------------------------------------
\* C1 (as claimed): for every JSON value X, _print_diff(X, X) returns 0 and
\* reports no path, also when X is an empty object.
C1_SelfDiffIsZero ==
    (diffPc # "start" /\ docX = docY) =>
        (diffXY.count = 0 /\ Fields(diffXY) = {})

\* C1 (amended): for every truthy JSON value X (not an empty object or list,
\* null, false, 0 or ""), _print_diff(X, X) returns 0 and reports no path,
\* also when X contains empty containers or JSON texts under ".content";
\* for a falsy X it returns -1 (remote unavailable).
C1_SelfDiffOfTruthyIsZero ==
    (diffPc # "start" /\ docX = docY) =>
        IF Truthy(docX)
        THEN diffXY.count = 0 /\ Fields(diffXY) = {}
        ELSE diffXY.count = -1

IsEmptyContainer(v) ==
    \/ (v.t = "obj" /\ v.kv = <<>>)
    \/ (v.t = "list" /\ v.items = <<>>)

C1_Witness ==
    /\ diffPc = "done" /\ docX = docY /\ diffXY.count = 0
    /\ docX.t = "obj" /\ Len(docX.kv) = 2
    /\ IsEmptyContainer(docX.kv[1][2])
    /\ docX.kv[2][1] = <<"a", ".", "content">>
    /\ docX.kv[2][2] = JText(DocA, "py")

\* C2 (as claimed): for every pair X, Y the paths reported by
\* _print_diff(X, Y) are the paths reported by _print_diff(Y, X).
C2_DiffPathsSymmetric ==
    diffPc = "done" => Fields(diffXY) = Fields(diffYX)

\* C2 (amended): for every pair X, Y of truthy JSON documents the paths
\* reported by _print_diff(X, Y) are those reported by _print_diff(Y, X),
\* and the entries are the same with the remote and local values swapped.
C2_DiffSymmetricOnTruthy ==
    (diffPc = "done" /\ Truthy(docX) /\ Truthy(docY)) =>
        /\ Fields(diffXY) = Fields(diffYX)
        /\ diffYX.diffs = { <<d[1], d[3], d[2]>> : d \in diffXY.diffs }

C2_Witness ==
    /\ diffPc = "done" /\ Truthy(docX) /\ Truthy(docY)
    /\ docX.t = "obj" /\ docY.t = "obj"
    /\ Fields(diffXY) = {K("a")}
    /\ \E d \in diffXY.diffs : d[2] = Missing /\ d[3] # Missing

\* the vendor operations update_node has issued so far
UpdOps == { upd_calls[i].op : i \in 1..Len(upd_calls) }

\* C3: in update_node, whenever the locally built spec and the fetched
\* remote spec have no differing path, the UpdateNode call is not issued,
\* and update_node returns normally.
C3_NoDifferenceSkipsUpdate ==
    ("GetNode" \in UpdOps /\ Diffs(upd_local, upd_remote) = {}) =>
        /\ "UpdateNode" \notin UpdOps
        /\ (updPc = "done" => upd_result = Returned(JNull))

\* a call that ended and skipped the update, although the remote copy is
\* not the same document as the local one (it is laid out differently)
C3_Witness ==
    /\ updPc = "done"
    /\ UpdOps = {"GetNode"}
    /\ upd_remote # upd_local
    /\ Diffs(upd_local, upd_remote) = {}
    /\ upd_result = Returned(JNull)


(***************************************************************************)
(* What the claims about the merge say, stated from the claims: the        *)
(* enumerated override keys with the place each one overrides.             *)
(***************************************************************************)
OverrideTargets(fn) ==
    CASE fn = "node" ->
           { <<K("node_name"), <<K("node_name")>> >>,
             <<K("cron"), <<K("cron")>> >>,
             <<K("reader_datasource"), <<K("reader"), K("datasource")>> >>,
             <<K("reader_path"), <<K("reader"), K("path")>> >>,
             <<K("writer_datasource"), <<K("writer"), K("datasource")>> >>,
             <<K("writer_table"), <<K("writer"), K("table")>> >>,
             <<K("writer_partition"), <<K("writer"), K("partition")>> >> }
      [] fn = "oss" ->
           { <<K("name"), <<K("name")>> >>,
             <<K("bucket"), <<K("bucket")>> >>,
             <<K("endpoint"), <<K("endpoint")>> >> }
      [] fn = "mc" ->
           { <<K("name"), <<K("name")>> >>,
             <<K("project"), <<K("project")>> >>,
             <<K("endpoint"), <<K("endpoint")>> >> }

TargetPaths(fn) == { ot[2] : ot \in OverrideTargets(fn) }

\* the section of global.json that belongs to fn, {} when there is none
SectionIn(fn, file) ==
    IF ~file.exists \/ ~file.parses THEN EmptyDict
    ELSE IF fn = "node" THEN DictGet(file.json, K("task"), EmptyDict)
    ELSE DictGet(DictGet(file.json, K("datasource"), EmptyDict),
                 K(fn), EmptyDict)

KeysOf(d) == { d.kv[i][1] : i \in 1..Len(d.kv) }

\* the paths of a configuration, one or two keys deep
AllPaths(d) ==
    { <<k>> : k \in KeysOf(d) }
        \cup UNION { { <<k, k2>> : k2 \in KeysOf(GetKey(d, k)) } :
                       k \in { x \in KeysOf(d) : GetKey(d, x).t = "obj" } }

PathGet(d, path) ==
    IF Len(path) = 1 THEN GetKey(d, path[1])
    ELSE GetKey(GetKey(d, path[1]), path[2])

LeafPaths(d) == { q \in AllPaths(d) : PathGet(d, q).t # "obj" }

MergeReturned ==
    /\ mergePc = "done"
    /\ merge_result.kind = "return"
    /\ base_file.exists /\ base_file.parses

\* C4: for each of the three merge functions, when global.json holds none
\* of the recognized override keys of that resource type, the returned
\* mapping is exactly the base template.
C4_NoRecognizedKeyYieldsBase ==
    (/\ mergePc = "done"
     /\ base_file.exists /\ base_file.parses
     /\ global_file.exists /\ global_file.parses
     /\ \A ot \in OverrideTargets(merge_fn) :
            ~HasKey(SectionIn(merge_fn, global_file), ot[1]))
        => merge_result = Returned(base_file.json)

C4_Witness ==
    /\ MergeReturned
    /\ merge_fn = "node"
    /\ global_file.exists /\ global_file.parses
    /\ KeysOf(SectionIn(merge_fn, global_file)) = {K("owner"), K("reader")}
    /\ base_file.json = FullTaskConfig
    /\ merge_result = Returned(FullTaskConfig)

\* C5: the base template is mandatory and global.json is optional: the
\* call raises FileNotFoundError when the base template is absent, and
\* returns the base template unchanged when global.json is absent or does
\* not parse.
C5_BaseMandatoryGlobalOptional ==
    mergePc = "done" =>
        /\ ~base_file.exists => merge_result = Raised("FileNotFoundError")
        /\ (/\ base_file.exists /\ base_file.parses
            /\ (~global_file.exists \/ ~global_file.parses))
              => merge_result = Returned(base_file.json)

C5_Witness ==
    /\ mergePc = "done"
    /\ base_file = FileOf(FullOssConfig)
    /\ global_file = Garbage
    /\ merge_result = Returned(FullOssConfig)

\* every place of the base template that is no override target keeps its
\* base value
C6_OthersKept ==
    \A q \in LeafPaths(base_file.json) \ TargetPaths(merge_fn) :
        /\ q \in LeafPaths(merge_result.value)
        /\ PathGet(merge_result.value, q) = PathGet(base_file.json, q)

\* no place is added that is neither in the base template nor a target
C6_NothingAdded ==
    \A q \in AllPaths(merge_result.value) :
        q \in AllPaths(base_file.json) \cup TargetPaths(merge_fn)

\* C6 (as claimed): a merge changes only the enumerated override targets,
\* adds no other key, and every overridden target takes exactly the
\* override value.
C6_OnlyTargetsChangeAllOverridesApply ==
    MergeReturned =>
        /\ C6_OthersKept
        /\ C6_NothingAdded
        /\ \A ot \in OverrideTargets(merge_fn) :
             HasKey(SectionIn(merge_fn, global_file), ot[1]) =>
                /\ ot[2] \in AllPaths(merge_result.value)
                /\ PathGet(merge_result.value, ot[2])
                     = GetKey(SectionIn(merge_fn, global_file), ot[1])

\* C6 (amended): a merge changes only the enumerated override targets and
\* adds no other key; an overridden top-level target (node_name, cron;
\* name, bucket/project, endpoint) takes exactly the override value; an
\* overridden reader.* or writer.* target takes the override value when the
\* base template has a reader (writer) key, and otherwise the override is
\* ignored and no reader (writer) key is created.
C6_OnlyTargetsChangeNestedNeedSection ==
    MergeReturned =>
        /\ C6_OthersKept
        /\ C6_NothingAdded
        /\ \A ot \in OverrideTargets(merge_fn) :
             HasKey(SectionIn(merge_fn, global_file), ot[1]) =>
                IF Len(ot[2]) = 2 /\ ~HasKey(base_file.json, ot[2][1])
                THEN ~HasKey(merge_result.value, ot[2][1])
                ELSE /\ ot[2] \in AllPaths(merge_result.value)
                     /\ PathGet(merge_result.value, ot[2])
                          = GetKey(SectionIn(merge_fn, global_file), ot[1])

C6_Witness ==
    /\ MergeReturned
    /\ merge_fn = "node"
    /\ KeysOf(base_file.json) = {K("node_name"), K("writer"), K("owner")}
    /\ KeysOf(SectionIn(merge_fn, global_file))
         = {K("reader_datasource"), K("writer_table")}
    /\ ~HasKey(merge_result.value, K("reader"))
    /\ PathGet(merge_result.value, <<K("writer"), K("table")>>) = JStr("t1")
    /\ PathGet(merge_result.value, <<K("writer"), K("datasource")>>) = JStr("wd0")
    /\ GetKey(merge_result.value, K("owner")) = JStr("o0")


\* the parameter of the writer step of a job description
WriterParameter(content) ==
    LET steps == GetKey(content, K("steps")).items
        w == CHOOSE j \in 1..Len(steps) :
                 GetKey(steps[j], K("category")) = JStr("writer")
    IN GetKey(steps[w], K("parameter"))

IsForT1(content) ==
    /\ GetKey(WriterParameter(content), K("table")) = JStr("t1")
    /\ GetKey(WriterParameter(content), K("partition")) = JStr("pt='${bizdate}'")

DropCalls == { odps_calls[i].table : i \in { j \in 1..Len(odps_calls) : odps_calls[j].op = "drop" } }

Whitelist == {"product_dim", "user_dim", "core_metrics"}

\* C9: a table whose name is in the whitelist is never dropped, whatever
\* its creation time, the --days threshold and the --execute flag: no drop
\* call is issued on it and it stays in the project.
C9_WhitelistedNeverDropped ==
    \A i \in 1..Len(tables) :
        tables[i].name \in Whitelist =>
            /\ tables[i].name \notin DropCalls
            /\ tables[i].name \in mc_tables

C9_Witness ==
    /\ cleanPc = "exit0"
    /\ clean_args = [execute |-> TRUE, days |-> 30]
    /\ Len(tables) = 2
    /\ tables[1] = [name |-> "core_metrics", creation_time |-> Now - 60]
    /\ tables[2] = [name |-> "tmp_x", creation_time |-> Now - 31]
    /\ counts.whitelisted = 1
    /\ mc_tables = {"core_metrics"}

\* C10: a non-whitelisted table created earlier than the threshold is
\* reported for deletion; the drop call on it is issued if and only if
\* --execute was supplied, and without --execute no drop call is issued on
\* any table.
C10_OldTableReportedDroppedIffExecute ==
    /\ \A i \in 1..Len(tables) :
         (/\ i < clean_i
          /\ tables[i].name \notin Whitelist
          /\ tables[i].creation_time # NoTime
          /\ tables[i].creation_time < Now - clean_args.days)
            => /\ \E tag \in {"DELETE", "DRY-RUN"} : <<tag, tables[i].name>> \in clean_out
               /\ <<"DRY-RUN", tables[i].name>> \in clean_out <=> ~clean_args.execute
               /\ tables[i].name \in DropCalls <=> clean_args.execute
    /\ ~clean_args.execute => DropCalls = {}

C10_Witness ==
    /\ cleanPc = "exit0"
    /\ clean_args = [execute |-> FALSE, days |-> 30]
    /\ Len(tables) = 2
    /\ tables[1] = [name |-> "tmp_x", creation_time |-> Now - 31]
    /\ tables[2] = [name |-> "tmp_y", creation_time |-> Now - 30]
    /\ clean_out = {<<"DRY-RUN", "tmp_x">>}
    /\ odps_calls = <<[op |-> "list_tables", table |-> ""]>>
    /\ mc_tables = {"tmp_x", "tmp_y"}
    /\ counts = [deleted |-> 1, kept |-> 1, whitelisted |-> 0]

-----------------------------------------------------------------------------
\* C13: get_node_id returns None whenever the ListFiles call raises an
\* error, as it does when the call succeeds with no file; it never passes
\* the error on to its caller.
C13_ListFilesErrorIsNotFound ==
    nidPc = "done" =>
        /\ nid_result.kind = "return"
        /\ (list_files.kind = "raise" => nid_result = Returned(JNull))
        /\ (list_files.kind = "ok" /\ FilesOfResponse(list_files) = <<>>)
              => nid_result = Returned(JNull)

\* a call in which ListFiles raised and None came back
C13_Witness ==
    /\ nidPc = "done"
    /\ list_files.kind = "raise"
    /\ Len(nid_calls) = 1
    /\ nid_result = Returned(JNull)


-----------------------------------------------------------------------------
(***************************************************************************)
(* process_project, read off the calls it has issued.                      *)
(***************************************************************************)
CallsFor(j) == { k \in 1..Len(proc_calls) : proc_calls[k].table = j }

\* a client call for table j raised, or create_sync_task gave a falsy id
FailedAt(j) == \E k \in CallsFor(j) : proc_calls[k].outcome \in {"raise", "none"}

\* the loop body was entered for table j: its first call was issued
Begun(j) == \E k \in CallsFor(j) : proc_calls[k].op = "job_exists"

\* table j got as far as config["ResourceGroupIdentifier"], which is missing
NoResourceGroupAt(j) ==
    /\ \E k \in CallsFor(j) : /\ proc_calls[k].op = "generate_task_content"
                              /\ proc_calls[k].outcome = "ok"
    /\ ~HasKey(proc_file.json, K("ResourceGroupIdentifier"))

\* C14: in process_project a failure while handling one table (a client
\* call that raises, or a falsy file id from create_sync_task) is counted
\* as failed for that table, once, and does not stop the loop: every later
\* table the loop can start (every table up to the first one without a
\* Name) is still processed.
C14_FailureIsCountedAndLoopGoesOn ==
    /\ stats.failed = Cardinality({ j \in 0..(proc_i - 1) :
                                      FailedAt(j) \/ NoResourceGroupAt(j) })
    /\ \A j \in 0..(proc_i - 1) :
         (FailedAt(j) /\ procPc = "done") =>
             \A n \in (j + 1)..(Len(ProcTables) - 1) :
                 (\A m \in (j + 1)..n : HasKey(ProcTables[m + 1], K("Name")))
                     => Begun(n)

\* two tables: the first failed, the second was still created and deployed
C14_Witness ==
    /\ procPc = "done"
    /\ proc_result = Returned([created |-> 1, skipped |-> 0, failed |-> 1])
    /\ FailedAt(0)
    /\ \E k \in CallsFor(1) : /\ proc_calls[k].op = "deploy_file"
                              /\ proc_calls[k].outcome = "ok"


-----------------------------------------------------------------------------
\* the place of a client operation in the loop body of process_project
OpRank(op) ==
    CASE op = "job_exists" -> 1
      [] op = "ensure_oss_datasource" -> 2
      [] op = "ensure_odps_datasource" -> 3
      [] op = "generate_task_content" -> 4
      [] op = "create_sync_task" -> 5
      [] op = "submit_file" -> 6
      [] op = "deploy_file" -> 7

\* the call of rank r for the table of call k was issued before k and
\* ended with outcome o
Preceded(k, r, o) ==
    \E h \in 1..(k - 1) :
        /\ proc_calls[h].table = proc_calls[k].table
        /\ OpRank(proc_calls[h].op) = r
        /\ proc_calls[h].outcome = o

\* C19: for each table the operations are issued in the order existence
\* check, ensure OSS datasource, ensure MaxCompute datasource, (content
\* generation,) create sync task, submit, deploy, none of them twice and
\* none before the one in front of it returned; submit only after
\* create_sync_task returned a truthy file id, deploy only after submit
\* returned without error, and after an existence check that says the job
\* exists no other call is issued for that table.
C19_CallsInFixedOrder ==
    \A k \in 1..Len(proc_calls) :
        LET c == proc_calls[k]
        IN /\ \A h \in 1..(k - 1) :
                \/ proc_calls[h].table < c.table
                \/ /\ proc_calls[h].table = c.table
                   /\ OpRank(proc_calls[h].op) < OpRank(c.op)
           /\ c.op = "ensure_oss_datasource" => Preceded(k, 1, "no")
           /\ c.op = "ensure_odps_datasource" => Preceded(k, 2, "ok")
           /\ c.op = "generate_task_content" => Preceded(k, 3, "ok")
           /\ c.op = "create_sync_task" => Preceded(k, 4, "ok")
           /\ c.op = "submit_file" => Preceded(k, 5, "id")
           /\ c.op = "deploy_file" => Preceded(k, 6, "ok")
           /\ (c.op = "job_exists" /\ c.outcome = "yes") =>
                  \A h \in 1..Len(proc_calls) :
                      proc_calls[h].table = c.table => h = k

\* a run with a table that went through all the operations and a table
\* whose job existed
C19_Witness ==
    /\ procPc = "done"
    /\ Len(proc_calls) = 8
    /\ proc_calls[7].op = "deploy_file" /\ proc_calls[7].outcome = "ok"
    /\ proc_calls[8].op = "job_exists" /\ proc_calls[8].outcome = "yes"
    /\ proc_result = Returned([created |-> 1, skipped |-> 1, failed |-> 0])


-----------------------------------------------------------------------------
\* GetNode answered with a spec that is the text of a non-empty document
RemoteUsable ==
    /\ get_node.kind = "ok" /\ get_node.node /\ get_node.has_spec
    /\ "doc" \in DOMAIN get_node.spec.s
    /\ get_node.spec.s.doc \notin {EmptyDict, JList(<<>>)}

\* C20: a call of update_node that built its local spec issues UpdateNode
\* whenever the remote spec cannot be used for the comparison (GetNode
\* raised, gave no node or no spec, an empty or unreadable spec) and
\* whenever at least one path differs; UpdateNode is not issued only after
\* a comparison with a usable remote spec that found no difference.
C20_UpdateUnlessComparedEqual ==
    (updPc = "done" /\ "GetNode" \in UpdOps) =>
        ("UpdateNode" \notin UpdOps
            <=> (RemoteUsable /\ Diffs(upd_local, get_node.spec.s.doc) = {}))

\* GetNode raised and UpdateNode was issued with the local spec
C20_Witness ==
    /\ updPc = "done"
    /\ get_node = GetNodeRaises
    /\ Len(upd_calls) = 2
    /\ upd_calls[2] = [op |-> "UpdateNode", spec |-> JsonDumps(upd_local)]


-----------------------------------------------------------------------------
\* a run of publish_node.py in which every step that can be taken is taken
FairSpecPub == SpecPub /\ WF_vars(NextPub)

PubEnded == pubPc \in {"exit0", "exit1", "crash"}

\* the number of calls of this operation issued by the publish run
PubCount(op) == Cardinality({ k \in 1..Len(pub_calls) : pub_calls[k] = op })

\* C16: wait_for_deployment always terminates; it checks the status at most
\* POLL_TIMEOUT_SEC / POLL_INTERVAL_SEC (30) times, and a run whose last
\* status read was still a pending one ends with exit status 1.
C16_WaitTerminates ==
    /\ [](PubCount("GetDeployment") <= POLL_TIMEOUT_SEC \div POLL_INTERVAL_SEC)
    /\ ((pubPc = "poll") ~> PubEnded)
    /\ []((PubEnded /\ pub_status \in {"Running", "Unknown"}) => pubPc = "exit1")

\* thirty pending answers, then the exit on timeout
C16_Witness ==
    /\ pubPc = "exit1"
    /\ pub_status \in {"Running", "Unknown"}
    /\ PubCount("GetDeployment") = 30
    /\ elapsed = POLL_TIMEOUT_SEC


-----------------------------------------------------------------------------
DsEnded == dsPc \in {"exit0", "exit1", "crash"}

\* the configuration file holds every key and every variable is set
DsComplete ==
    /\ ds_file = FileOf(DsFull(ds_script))
    /\ \A n \in DwEnvNames : ds_env[n] = "v"

DsCreateOutcome(outcome) ==
    \E k \in 1..Len(ds_calls) :
        ds_calls[k].op = "CreateDataSource" /\ ds_calls[k].outcome = outcome

-----------------------------------------------------------------------------
DepEnded == depPc \in {"exit0", "exit1", "crash"}

\* the projects selected by --projects, or found when it is not given
Selected == IF target_projects # <<>> THEN target_projects ELSE Discovered(dep_fs)

Reported(outcome) ==
    \E k \in 1..Len(dep_reports) : dep_reports[k].outcome = outcome

\* C15 as stated: a run of deploy_all that saw a project fail processed
\* every selected project, and the run ends with exit status 1 exactly when
\* a processed project reported failed > 0, with status 0 otherwise.
C15_ExitOneIffAProjectFailed ==
    (DepEnded /\ ~DeployCreateClientExits(dep_env)) =>
        /\ Reported("failed") => Len(dep_reports) = Len(Selected)
        /\ depPc = "exit1" <=> Reported("failed")
        /\ ~Reported("failed") => depPc = "exit0"

\* C15, amended: process_project is called on the projects of the list in
\* order; a project that reported failed > 0 does not stop the loop, only a
\* raising process_project does, and that ends the process abnormally.
\* When every call returned the exit status is 1 exactly when a project
\* reported failed > 0, else 0.  A run that built no list (a named
\* directory missing, nothing found) does not end with status 0.
C15_EveryProjectProcessedUnlessRaise ==
    /\ \A k \in 1..Len(dep_reports) :
          /\ dep_reports[k].project = project_dirs[k]
          /\ (dep_reports[k].outcome = "raise") => (k = Len(dep_reports) /\ depPc = "crash")
    /\ (depPc \in {"exit0", "exit1"} /\ project_dirs # <<>>) =>
          /\ Len(dep_reports) = Len(project_dirs)
          /\ depPc = "exit1" <=> Reported("failed")
    /\ (depPc = "crash" /\ project_dirs # <<>>) => Reported("raise")
    /\ (DepEnded /\ project_dirs = <<>>) => (depPc # "exit0" /\ dep_reports = <<>>)

\* the first project failed, the second was processed all the same
C15_Witness ==
    /\ depPc = "exit1"
    /\ dep_reports = << [project |-> "A", outcome |-> "failed"],
                        [project |-> "B", outcome |-> "ok"] >>


-----------------------------------------------------------------------------
\* the programs that issue vendor calls, each run on its own
InitCalls == InitPub \/ InitUpd \/ InitCn \/ InitDs \/ InitProc
NextCalls == NextPub \/ NextUpd \/ NextCn \/ NextDs \/ NextProc
SpecCalls == InitCalls /\ [][NextCalls]_vars

\* how often this operation occurs in a sequence of call records
Times(calls, op) == Cardinality({ k \in 1..Len(calls) : calls[k].op = op })

\* C17: in a publish run ListFiles and SubmitFile are issued at most once
\* (only GetDeployment is repeated); update_node issues UpdateNode at most
\* once, create_node CreateNode at most once, a datasource script
\* CreateDataSource at most once, and process_project each of its creating
\* calls at most once per table: a call that failed is never issued again.
C17_OnlyTheStatusCheckIsRepeated ==
    /\ PubCount("ListFiles") <= 1
    /\ PubCount("SubmitFile") <= 1
    /\ Times(upd_calls, "UpdateNode") <= 1
    /\ Times(cn_calls, "CreateNode") <= 1
    /\ Times(ds_calls, "CreateDataSource") <= 1
    /\ \A j \in 0..MaxProjTables :
          \A op \in {"create_sync_task", "submit_file", "deploy_file"} :
              Cardinality({ k \in CallsFor(j) : proc_calls[k].op = op }) <= 1

\* a publish run that read the status more than once and succeeded
C17_Witness ==
    /\ pubPc = "exit0"
    /\ PubCount("GetDeployment") > 1
    /\ PubCount("ListFiles") = 1
    /\ PubCount("SubmitFile") = 1


-----------------------------------------------------------------------------
\* the entry points, each run on its own
InitEntry == InitPub \/ InitDs \/ InitDep \/ InitTbl \/ InitClean
NextEntry == NextPub \/ NextDs \/ NextDep \/ NextTbl \/ NextClean
SpecEntry == InitEntry /\ [][NextEntry]_vars

\* the variable is not set in this environment
EnvMissing(env, name) == env[name] = "unset"

\* the variables the table scripts need
OdpsEnvNames == { CleanEnvNames[i] : i \in 1..Len(CleanEnvNames) }

\* C12: ALIYUN_REGION is required: a run of publish_node, create_mc_ds,
\* create_oss_ds or deploy in whose environment it is absent gets no
\* client: it issues no vendor call and does not end with status 0.
C12_RegionIsRequired ==
    /\ (pubPc # "idle" /\ EnvMissing(pub_env, "ALIYUN_REGION")) =>
           (pub_region = "" /\ pub_calls = <<>> /\ pubPc # "exit0")
    /\ (dsPc # "idle" /\ EnvMissing(ds_env, "ALIYUN_REGION")) =>
           (ds_calls = <<>> /\ dsPc \notin {"create", "exit0"})
    /\ (depPc # "idle" /\ EnvMissing(dep_env, "ALIYUN_REGION")) =>
           (dep_reports = <<>> /\ depPc \in {"start", "exit1"})

\* C11: a run of an entry point in whose environment a required variable
\* is missing issues no vendor call and does not end with status 0.  The
\* required variables are the credential pair, ALIYUN_REGION and
\* DATAWORKS_PROJECT_ID for publish_node, create_mc_ds, create_oss_ds and
\* deploy, and the credential pair, MAXCOMPUTE_PROJECT and
\* MAXCOMPUTE_ENDPOINT for create_table and clean_mc_tables.
C11_MissingVariableStopsBeforeAnyCall ==
    /\ (pubPc # "idle" /\ \E n \in DwEnvNames : EnvMissing(pub_env, n)) =>
           (pub_calls = <<>> /\ pubPc # "exit0")
    /\ (dsPc # "idle" /\ \E n \in DwEnvNames : EnvMissing(ds_env, n)) =>
           (ds_calls = <<>> /\ dsPc # "exit0")
    /\ (depPc # "idle" /\ \E n \in DwEnvNames : EnvMissing(dep_env, n)) =>
           (dep_reports = <<>> /\ depPc # "exit0")
    /\ (tblPc # "idle" /\ \E n \in OdpsEnvNames : EnvMissing(tbl_env, n)) =>
           (tbl_calls = <<>> /\ tblPc # "exit0")
    /\ (cleanPc # "idle" /\ \E n \in OdpsEnvNames : EnvMissing(clean_env, n)) =>
           (odps_calls = <<>> /\ cleanPc # "exit0")


-----------------------------------------------------------------------------
\* this step issues a GetDeployment call
StatusChecked ==
    Len(pub_calls') = Len(pub_calls) + 1 /\ pub_calls'[Len(pub_calls')] = "GetDeployment"

\* what a status check leads to, by the status it read
ReactionToStatus ==
    StatusChecked =>
        /\ pub_status' = "Success" => pubPc' = "exit0"
        /\ pub_status' \in {"Fail", "Rejected", "Abort"} => pubPc' = "exit1"
        /\ pub_status' \in {"Running", "Unknown"} =>
               (pubPc' = "poll" /\ elapsed' = elapsed + POLL_INTERVAL_SEC)

\* C21: a status check that reads 'Success' ends the run normally, one that
\* reads 'Fail', 'Rejected' or 'Abort' ends it with exit status 1, and after
\* either no call is issued any more; any other status (a response without
\* deployment is read as 'Unknown') adds the interval to the elapsed time
\* and, while that is below the timeout, the next step of the run is
\* another status check.
C21_ReactionToEachStatus ==
    /\ [][ReactionToStatus]_vars
    /\ [][PubEnded => pub_calls' = pub_calls]_vars
    /\ []((pubPc = "poll" /\ elapsed < POLL_TIMEOUT_SEC) => ENABLED (NextPub /\ StatusChecked))
    /\ [][(pubPc = "poll" /\ elapsed < POLL_TIMEOUT_SEC) => StatusChecked]_vars

\* a pending status, then 'Abort' and the exit with status 1
C21_Witness ==
    /\ pubPc = "exit1"
    /\ pub_status = "Abort"
    /\ PubCount("GetDeployment") = 2
    /\ elapsed = POLL_INTERVAL_SEC


-----------------------------------------------------------------------------
\* the files of the ListFiles answer whose name is exactly the node name
ExactlyNamed ==
    { i \in 1..Len(PubFilesOfResponse(pub_files)) :
          PubFilesOfResponse(pub_files)[i].file_name = PubNodeName(pub_file) }

\* ListFiles answered with a readable response
Listed == PubCount("ListFiles") > 0 /\ pub_files.kind = "ok" /\ pub_files.body

\* C22: SubmitFile is issued only with the id of a listed file whose name
\* is exactly node_name; after a ListFiles answer without such a file the
\* run ends with exit status 1 and has issued neither SubmitFile nor
\* GetDeployment; GetDeployment is issued only after SubmitFile, and only
\* when that returned a deployment id.
C22_SubmitOnlyExactMatch ==
    /\ PubCount("SubmitFile") > 0 =>
          /\ Listed
          /\ \E i \in ExactlyNamed : PubFilesOfResponse(pub_files)[i].file_id = pub_file_id
    /\ (Listed /\ ExactlyNamed = {}) =>
          (pubPc = "exit1" /\ PubCount("SubmitFile") = 0 /\ PubCount("GetDeployment") = 0)
    /\ PubCount("GetDeployment") > 0 =>
          /\ deployment_id # ""
          /\ \A k \in 1..Len(pub_calls) :
                pub_calls[k] = "GetDeployment" => \E h \in 1..(k - 1) : pub_calls[h] = "SubmitFile"

\* the search found a file of another name before the node's own file
C22_Witness ==
    /\ pubPc = "exit0"
    /\ pub_files = ListFilesOf(<< [file_name |-> "n0_bak", file_id |-> 9],
                                  [file_name |-> "n0", file_id |-> 8] >>)
    /\ pub_file_id = 8
    /\ pub_calls = <<"ListFiles", "SubmitFile", "GetDeployment">>


-----------------------------------------------------------------------------
\* what load_merged_oss_ds_config gives for the files of this run
MergedOss == LoadMergedOssDsConfig(ds_file, ds_global).value

\* C23: a run of create_oss_ds with a readable base template, both
\* credentials and DATAWORKS_PROJECT_ID set ends having issued
\* CreateDataSource exactly once, with the name, bucket and endpoint of the
\* merged configuration.
C23_OssRequestFromMergedConfig ==
    ( /\ ds_script = "oss" /\ DsEnded
      /\ ds_file.exists /\ ds_file.parses
      /\ \A n \in DwEnvNames \ {"ALIYUN_REGION"} : ds_env[n] = "v" ) =>
        /\ Len(ds_calls) = 1
        /\ ds_calls[1].request = [name |-> DictGet(MergedOss, K("name"), JNull),
                                  bucket |-> DictGet(MergedOss, K("bucket"), JNull),
                                  endpoint |-> DictGet(MergedOss, K("endpoint"), JNull)]


-----------------------------------------------------------------------------
\* C24: with an explicit project list, a named directory that does not
\* exist ends the run with exit status 1 and process_project is called for
\* no project, also not for the names before it in the list; a run that
\* found no project to process ends with exit status 1 without processing.
C24_ListCheckedBeforeProcessing ==
    (DepEnded /\ ~DeployCreateClientExits(dep_env)) =>
        /\ ( /\ target_projects # <<>>
             /\ \E k \in 1..Len(target_projects) : dep_fs[target_projects[k]] = "none" ) =>
               (depPc = "exit1" /\ dep_reports = <<>>)
        /\ (target_projects = <<>> /\ dep_fs.root /\ Discovered(dep_fs) = <<>>) =>
               (depPc = "exit1" /\ dep_reports = <<>>)

\* the first named directory exists, the second does not
C24_Witness ==
    /\ depPc = "exit1"
    /\ target_projects = <<"A", "B">>
    /\ dep_fs.A = "config" /\ dep_fs.B = "none"
    /\ dep_reports = <<>>


-----------------------------------------------------------------------------
RECURSIVE JsonEqual(_, _, _)

\* a and b, found at this path, are equal as JSON values: objects with the
\* same keys and equal values, lists of equal length with equal elements,
\* equal scalars (numbers by value, 1 = 1.0); two strings at a path ending
\* in ".content" that both hold JSON text are equal when the documents they
\* encode are.
JsonEqual(a, b, path) ==
    CASE a.t = "obj" /\ b.t = "obj" ->
           /\ { a.kv[i][1] : i \in 1..Len(a.kv) } = { b.kv[i][1] : i \in 1..Len(b.kv) }
           /\ \A i \in 1..Len(a.kv) :
                 JsonEqual(a.kv[i][2], GetKey(b, a.kv[i][1]),
                           IF path # <<>> THEN path \o <<".">> \o a.kv[i][1] ELSE a.kv[i][1])
      [] a.t = "list" /\ b.t = "list" ->
           /\ Len(a.items) = Len(b.items)
           /\ \A i \in 1..Len(a.items) :
                 JsonEqual(a.items[i], b.items[i], path \o <<IdxTok(i - 1)>>)
      [] a.t = "num" /\ b.t = "num" -> Canon(a.n) = Canon(b.n)
      [] a.t = "str" /\ b.t = "str" ->
           IF EndsWithContent(path) /\ JsonLoads(a).ok /\ JsonLoads(b).ok
           THEN JsonEqual(JsonLoads(a).v, JsonLoads(b).v, <<>>)
           ELSE a = b
      [] OTHER -> a = b

\* C25: _print_diff(local, remote) returns 0 only when local and remote are
\* equal as JSON values, string fields at paths ending in ".content" being
\* compared as the JSON they hold.
C25_ZeroOnlyWhenEqual ==
    /\ (diffPc # "start" /\ diffXY.count = 0) => JsonEqual(docX, docY, <<>>)
    /\ (diffPc = "done" /\ diffYX.count = 0) => JsonEqual(docY, docX, <<>>)



-----------------------------------------------------------------------------
\* table j was found to exist already: job_exists answered yes
SkippedAt(j) ==
    \E k \in CallsFor(j) : /\ proc_calls[k].op = "job_exists"
                           /\ proc_calls[k].outcome = "yes"

\* table j went through to the end: deploy_file returned
CreatedAt(j) ==
    \E k \in CallsFor(j) : /\ proc_calls[k].op = "deploy_file"
                           /\ proc_calls[k].outcome = "ok"

\* how many of the tables 0..n-1 satisfy the classification `kind`
CountOf(n, kind) ==
    Cardinality({ j \in 0..(n - 1) :
        CASE kind = "created" -> CreatedAt(j)
          [] kind = "skipped" -> SkippedAt(j)
          [] kind = "failed" -> ~CreatedAt(j) /\ ~SkippedAt(j) })

\* C26: when config.json exists, the counts process_project returns add up
\* to the number of entries in Tables, and each table is in exactly one of
\* them: created when its deploy_file returned, skipped when job_exists
\* answered yes, failed otherwise. When config.json is missing the result
\* is created 0, skipped 0, failed 1 and no client call was made.
C26_EveryTableInOneCounter ==
    /\ (procPc = "done" /\ proc_file.exists /\ proc_result.kind = "return") =>
         LET r == proc_result.value
             n == Len(ProcTables)
         IN /\ r.created + r.skipped + r.failed = n
            /\ r.created = CountOf(n, "created")
            /\ r.skipped = CountOf(n, "skipped")
            /\ r.failed = CountOf(n, "failed")
            /\ \A j \in 0..(n - 1) : ~(CreatedAt(j) /\ SkippedAt(j))
    /\ (procPc = "done" /\ ~proc_file.exists) =>
         /\ proc_result = Returned([created |-> 0, skipped |-> 0, failed |-> 1])
         /\ proc_calls = <<>>

\* two tables, one skipped and one failed at submit_file
C26_Witness ==
    /\ procPc = "done"
    /\ proc_file.exists
    /\ proc_result = Returned([created |-> 0, skipped |-> 1, failed |-> 1])
    /\ SkippedAt(0)
    /\ \E k \in CallsFor(1) : /\ proc_calls[k].op = "submit_file"
                              /\ proc_calls[k].outcome = "raise"

\* config.json is missing
C26_WitnessMissing ==
    /\ procPc = "done"
    /\ ~proc_file.exists
    /\ proc_result.kind = "return"


-----------------------------------------------------------------------------
\* the tables the loop of clean_mc_tables has gone through
Classified == 1..(clean_i - 1)

\* table i was created at the threshold date or after it
AtOrAfterThreshold(i) ==
    /\ tables[i].creation_time # NoTime
    /\ tables[i].creation_time >= Now - clean_args.days

\* C27: the table cleanup puts every listed table in exactly one of
\* count_deleted, count_kept and count_whitelisted, so that the three add
\* up to the number of listed tables when the summary is printed: a
\* whitelisted table is counted as whitelisted, any other table older than
\* the threshold as deleted, and the rest as kept.  A table without
\* creation time is never dropped, and neither is a table created at the
\* threshold date or after it (the comparison is strict).
C27_EveryTableClassifiedOnce ==
    cleanPc # "idle" =>
      /\ counts.deleted + counts.kept + counts.whitelisted = Cardinality(Classified)
      /\ cleanPc = "exit0" => Cardinality(Classified) = Len(tables)
      /\ counts.whitelisted =
             Cardinality({ i \in Classified : tables[i].name \in Whitelist })
      /\ counts.kept =
             Cardinality({ i \in Classified :
                 /\ tables[i].name \notin Whitelist
                 /\ tables[i].creation_time = NoTime \/ AtOrAfterThreshold(i) })
      /\ counts.deleted =
             Cardinality({ i \in Classified :
                 /\ tables[i].name \notin Whitelist
                 /\ tables[i].creation_time # NoTime
                 /\ ~AtOrAfterThreshold(i) })
      /\ \A i \in 1..Len(tables) :
           (tables[i].creation_time = NoTime \/ AtOrAfterThreshold(i))
               => tables[i].name \notin DropCalls

\* --execute --days 30 on a table created exactly 30 days ago and a table
\* without creation time: both are kept, nothing is dropped
C27_Witness ==
    /\ cleanPc = "exit0"
    /\ clean_args = [execute |-> TRUE, days |-> 30]
    /\ Len(tables) = 2
    /\ tables[1].name \notin Whitelist /\ tables[1].creation_time = Now - 30
    /\ tables[2].name \notin Whitelist /\ tables[2].creation_time = NoTime
    /\ counts = [deleted |-> 0, kept |-> 2, whitelisted |-> 0]
    /\ DropCalls = {}

=============================================================================
